---- MODULE Spec2Model ----
(***************************************************************************)
(* A model of ruby-marshal: the value arena (value_arena.rs), the Fixnum   *)
(* codec, the loader (load.rs), the dumper (dump.rs) and the extraction    *)
(* context (convert/from_value.rs).                                        *)
(*                                                                         *)
(* A ValueHandle is a positive integer: slotmap hands out keys 1, 2, ...   *)
(* and the arena never removes a slot, so the key of a value is its        *)
(* position in the slot sequence.  A handle that was made by another arena *)
(* is an integer that may or may not be a live position of this one.       *)
(* Option<T> is a sequence of length 0 (None) or 1 (Some).                 *)
(* Byte strings are sequences over 0..255.                                 *)
(***************************************************************************)
EXTENDS Integers, Sequences, FiniteSets, TLC

VARIABLES
    arena,      \* the ValueArena driven through its public API
    calls,      \* history of the API calls made on arena: op, args, ret
    fx,         \* the Fixnum codec run: value, encoded bytes, decoder
    input,      \* the byte stream handed to load
    pc,         \* position of the load / dump / reload pipeline
    loader,     \* the Loader of load(input)
    dumper,     \* the Dumper of dump(loaded arena)
    reloader,   \* the Loader of load(dumped bytes)
    ex          \* the extraction run of a FromValueContext

vars == <<arena, calls, fx, input, pc, loader, dumper, reloader, ex>>

(***************************************************************************)
(* Bounds                                                                  *)
(***************************************************************************)
MaxOps == 3
FixRange == 130
MaxBody == 3
MaxExBody == 5
MaxScript == 3

(***************************************************************************)
(* Option                                                                  *)
(***************************************************************************)
None == <<>>

Some(x) == <<x>>

is_some(o) == Len(o) = 1

unwrap(o) == o[1]

(***************************************************************************)
(* lib.rs: constants                                                       *)
(***************************************************************************)
MAJOR_VERSION == 4
MINOR_VERSION == 8
VALUE_KIND_NIL == 48
VALUE_KIND_TRUE == 84
VALUE_KIND_FALSE == 70
VALUE_KIND_FIXNUM == 105
VALUE_KIND_SYMBOL == 58
VALUE_KIND_SYMBOL_LINK == 59
VALUE_KIND_OBJECT_LINK == 64
VALUE_KIND_INSTANCE_VARIABLES == 73
VALUE_KIND_ARRAY == 91
VALUE_KIND_HASH == 123
VALUE_KIND_HASH_DEFAULT == 125
VALUE_KIND_OBJECT == 111
VALUE_KIND_STRING == 34
VALUE_KIND_USER_DEFINED == 117

(***************************************************************************)
(* value_arena/value.rs: the nine kinds of Value                           *)
(***************************************************************************)
NilValue == [kind |-> "Nil"]

BoolValue(value) == [kind |-> "Bool", value |-> value]

FixnumValue(value) == [kind |-> "Fixnum", value |-> value]

SymbolValue(value) == [kind |-> "Symbol", value |-> value]

ArrayValue(value) == [kind |-> "Array", value |-> value]

HashValue(value, default_value) == [kind |-> "Hash", value |-> value, default_value |-> default_value]

ObjectValue(name, instance_variables) == [kind |-> "Object", name |-> name, instance_variables |-> instance_variables]

StringValue(value) == [kind |-> "String", value |-> value, instance_variables |-> None]

UserDefinedValue(name, value) == [kind |-> "UserDefined", name |-> name, value |-> value, instance_variables |-> None]

\* StringValue::set_instance_variables: swap in the new block.
set_instance_variables_keep(v, instance_variables) == v

set_instance_variables(v, instance_variables) == [v EXCEPT !.instance_variables = instance_variables]

(***************************************************************************)
(* value_arena.rs: ValueArena                                              *)
(*   arena   : the slots, a sequence of Values                             *)
(*   symbols : the interning map, a set of [key, handle] entries with      *)
(*             at most one entry per key                                   *)
(*   root    : the root handle                                             *)
(***************************************************************************)
\* SlotMap::insert: the value goes to a fresh slot, whose key is returned.
slot_insert(a, v) == [arena |-> [a EXCEPT !.arena = Append(a.arena, v)], handle |-> Len(a.arena) + 1]

ValueArena_new == [arena |-> <<NilValue>>, symbols |-> {}, root |-> 1]

root(a) == a.root

replace_root_noswap(a, new_root) == [arena |-> a, old |-> new_root]

replace_root(a, new_root) == [arena |-> [a EXCEPT !.root = new_root], old |-> a.root]

get(a, handle) == IF handle \in 1..Len(a.arena) THEN Some(a.arena[handle]) ELSE None

\* HashMap::get on the interning map.
symbols_get(a, value) ==
    LET hit == {e \in a.symbols : e.key = value}
    IN  IF hit = {} THEN None ELSE Some((CHOOSE e \in hit : TRUE).handle)

create_nil_rooted(a) == [arena |-> [a EXCEPT !.arena = Append(a.arena, NilValue), !.root = Len(a.arena) + 1], handle |-> Len(a.arena) + 1]

create_nil(a) == slot_insert(a, NilValue)

create_bool(a, value) == slot_insert(a, BoolValue(value))

create_fixnum(a, value) == slot_insert(a, FixnumValue(value))

\* A Symbol made without an entry of the interning map.
create_new_symbol_unlisted(a, value) == slot_insert(a, SymbolValue(value))

\* entry(value).or_insert(handle): an existing entry is kept.
create_new_symbol(a, value) ==
    LET ins == slot_insert(a, SymbolValue(value))
    IN  [arena |-> [ins.arena EXCEPT !.symbols =
                        IF is_some(symbols_get(a, value)) THEN @
                        ELSE @ \cup {[key |-> value, handle |-> ins.handle]}],
         handle |-> ins.handle]

create_symbol_fresh(a, value) == create_new_symbol(a, value)

create_symbol(a, value) ==
    IF is_some(symbols_get(a, value))
    THEN [arena |-> a, handle |-> unwrap(symbols_get(a, value))]
    ELSE create_new_symbol(a, value)

create_array(a, value) == slot_insert(a, ArrayValue(value))

create_hash(a, value, default_value) == slot_insert(a, HashValue(value, default_value))

create_object(a, name, instance_variables) == slot_insert(a, ObjectValue(name, instance_variables))

create_string(a, value) == slot_insert(a, StringValue(value))

create_user_defined(a, name, value) == slot_insert(a, UserDefinedValue(name, value))

(***************************************************************************)
(* Machine integers.  An i32 is an integer in I32_MIN..I32_MAX; its 32     *)
(* bits are four byte lanes, least significant first, so that shifts by a  *)
(* multiple of 8 and the bitwise operators act lane by lane.               *)
(***************************************************************************)
I32_MAX == 2147483647
I32_MIN == -2147483647 - 1

\* The byte widened without its sign.
as_i8_nowrap(byte) == byte

\* `byte as i8`
as_i8(byte) == IF byte > 127 THEN byte - 256 ELSE byte

\* `x as u8` of an i8
as_u8(x) == IF x < 0 THEN x + 256 ELSE x

RECURSIVE byte_and(_, _)
byte_and(x, y) == IF x = 0 \/ y = 0 THEN 0 ELSE (x % 2) * (y % 2) + 2 * byte_and(x \div 2, y \div 2)

RECURSIVE byte_or(_, _)
byte_or(x, y) == IF x = 0 /\ y = 0 THEN 0 ELSE (IF x % 2 = 1 \/ y % 2 = 1 THEN 1 ELSE 0) + 2 * byte_or(x \div 2, y \div 2)

\* The lanes of an i32 (two's complement).
i32_lanes(n) ==
    LET low == IF n >= 0 THEN n ELSE (n + I32_MAX) + 1
    IN  <<low % 256, (low \div 256) % 256, (low \div 65536) % 256,
          (low \div 16777216) + (IF n >= 0 THEN 0 ELSE 128)>>

\* The i32 with the given lanes.
lanes_i32(w) ==
    IF w[4] >= 128
    THEN (((w[4] - 128) * 16777216 + w[3] * 65536 + w[2] * 256 + w[1]) - I32_MAX) - 1
    ELSE w[4] * 16777216 + w[3] * 65536 + w[2] * 256 + w[1]

\* `i32::from(byte) << (i * 8)` for i in 0..=3
shl_lane(byte, i) == [k \in 1..4 |-> IF k = i + 1 THEN byte ELSE 0]

\* `n | m`, `n & m`, `!n` on i32
i32_or(n, m) == lanes_i32([k \in 1..4 |-> byte_or(i32_lanes(n)[k], i32_lanes(m)[k])])

i32_and(n, m) == lanes_i32([k \in 1..4 |-> byte_and(i32_lanes(n)[k], i32_lanes(m)[k])])

i32_not(n) == lanes_i32([k \in 1..4 |-> 255 - i32_lanes(n)[k]])

\* `n >> 8` on i32 (arithmetic shift)
i32_shr8(n) == n \div 256

(***************************************************************************)
(* lib.rs: Error                                                           *)
(***************************************************************************)
Ok == [name |-> "Ok"]

Error_Io == [name |-> "Io"]

Error_InvalidVersion(major, minor) == [name |-> "InvalidVersion", major |-> major, minor |-> minor]

Error_InvalidValueKind(kind) == [name |-> "InvalidValueKind", kind |-> kind]

Error_InvalidValueHandle(handle) == [name |-> "InvalidValueHandle", handle |-> handle]

Error_InvalidFixnumSize(size) == [name |-> "InvalidFixnumSize", size |-> size]

Error_FixnumInvalidUSize == [name |-> "FixnumInvalidUSize"]

Error_USizeInvalidFixnum == [name |-> "USizeInvalidFixnum"]

Error_MissingSymbolLink(index) == [name |-> "MissingSymbolLink", index |-> index]

Error_MissingObjectLink(index) == [name |-> "MissingObjectLink", index |-> index]

Error_UnexpectedValueKind(expected, actual) == [name |-> "UnexpectedValueKind", expected |-> expected, actual |-> actual]

Error_NotAnObject == [name |-> "NotAnObject"]

Error_DuplicateInstanceVariable(variable) == [name |-> "DuplicateInstanceVariable", variable |-> variable]

\* A Result is carried by the state of the Loader or Dumper: err is Ok
\* until an operation fails, and ret is what the last operation returned.
failed(S) == S.err.name # "Ok"

fail(S, error) == [S EXCEPT !.err = error]

return(S, value) == [S EXCEPT !.ret = value]

\* A step added to the history of a Loader or a Dumper (not program state).
logged(L, event) == [L EXCEPT !.log = Append(@, event)]

(***************************************************************************)
(* dump.rs: Dumper                                                         *)
(*   out          : the bytes the writer has received so far               *)
(*   symbol_links : IndexSet of Symbol handles, in insertion order         *)
(*   object_links : IndexSet of handles, in insertion order                *)
(*   log          : history of what the dumper did (not program state)     *)
(***************************************************************************)
Dumper_new(writer, value_arena) ==
    [out |-> writer, arena |-> value_arena, symbol_links |-> <<>>, object_links |-> <<>>,
     err |-> Ok, ret |-> FALSE, log |-> <<>>]

\* Write::write_all
write_all(D, bytes) == [D EXCEPT !.out = @ \o bytes]

write_header(D) == write_all(D, <<MAJOR_VERSION, MINOR_VERSION>>)

write_byte(D, byte) == write_all(D, <<byte>>)

\* The loop of write_fixnum: buffer[i] is the low byte, value is shifted
\* down, and the loop ends with the size byte when value is 0 or -1.
RECURSIVE write_fixnum_loop(_, _, _)
write_fixnum_loop(value, i, buffer) ==
    LET low == i32_and(value, 255)
        rest == i32_shr8(value)
    IN  IF i > 4 THEN <<0>> \o buffer
        ELSE IF rest = 0 THEN <<i>> \o Append(buffer, low)
        ELSE IF rest = -1 THEN <<as_u8(-i)>> \o Append(buffer, low)
        ELSE write_fixnum_loop(rest, i + 1, Append(buffer, low))

write_fixnum_nosign(D, value) ==
    IF value = 0 THEN write_all(D, <<0>>)
    ELSE IF value > 0 /\ value < 123 THEN write_all(D, <<value + 5>>)
    ELSE IF value < 0 /\ value > -124 THEN write_all(D, <<i32_and(value - 5, 255)>>)
    ELSE write_all(D, <<Len(write_fixnum_loop(value, 1, <<>>)) - 1>> \o Tail(write_fixnum_loop(value, 1, <<>>)))

\* The long forms written with all four payload bytes.
write_fixnum_wide(D, value) ==
    IF value = 0 THEN write_all(D, <<0>>)
    ELSE IF value > 0 /\ value < 123 THEN write_all(D, <<value + 5>>)
    ELSE IF value < 0 /\ value > -124 THEN write_all(D, <<i32_and(value - 5, 255)>>)
    ELSE write_all(D, <<IF value > 0 THEN 4 ELSE as_u8(-4)>> \o i32_lanes(value))

write_fixnum(D, value) ==
    IF value = 0 THEN write_all(D, <<0>>)
    ELSE IF value > 0 /\ value < 123 THEN write_all(D, <<value + 5>>)
    ELSE IF value < 0 /\ value > -124 THEN write_all(D, <<i32_and(value - 5, 255)>>)
    ELSE write_all(D, write_fixnum_loop(value, 1, <<>>))

\* `i32::try_from(len)` of a length or an index
usize_fixnum(D, len) == IF len > I32_MAX THEN fail(D, Error_USizeInvalidFixnum) ELSE D

\* IndexSet::get_index_of
get_index_of(links, handle) ==
    IF \E i \in 1..Len(links) : links[i] = handle
    THEN Some((CHOOSE i \in 1..Len(links) : links[i] = handle) - 1)
    ELSE None

write_byte_string(D, value) ==
    LET len == usize_fixnum(D, Len(value))
    IN  IF failed(len) THEN len ELSE write_all(write_fixnum(len, Len(value)), value)

\* A link written with the index after the one of the handle.
write_value_object_link_next(D, index) ==
    write_fixnum(write_byte(D, VALUE_KIND_OBJECT_LINK), index + 1)

write_value_object_link(D, index) ==
    LET checked == usize_fixnum(D, index)
    IN  IF failed(checked) THEN checked
        ELSE write_fixnum(write_byte(checked, VALUE_KIND_OBJECT_LINK), index)

\* IndexSet::insert_full, then the link is written when the handle was
\* already there; ret is TRUE when a link was written.
try_write_value_object_link(D, handle) ==
    IF is_some(get_index_of(D.object_links, handle))
    THEN LET done(link) == IF failed(link) THEN link ELSE return(link, TRUE)
         IN  done(write_value_object_link(
                      logged(D, [ev |-> "link", handle |-> handle, at |-> Len(D.out)]),
                      unwrap(get_index_of(D.object_links, handle))))
    ELSE return(logged([D EXCEPT !.object_links = Append(@, handle)],
                       [ev |-> "body", handle |-> handle, at |-> Len(D.out)]),
                FALSE)

write_value_symbol_like(D, handle, value) ==
    IF is_some(get_index_of(D.symbol_links, handle))
    THEN LET index == unwrap(get_index_of(D.symbol_links, handle))
             checked == usize_fixnum(logged(D, [ev |-> "symbol_link", handle |-> handle,
                                                at |-> Len(D.out)]),
                                     index)
         IN  IF failed(checked) THEN checked
             ELSE write_fixnum(write_byte(checked, VALUE_KIND_SYMBOL_LINK), index)
    ELSE write_byte_string(write_byte(logged([D EXCEPT !.symbol_links = Append(@, handle)],
                                             [ev |-> "symbol", handle |-> handle, at |-> Len(D.out)]),
                                      VALUE_KIND_SYMBOL),
                           value.value)

RECURSIVE write_value(_, _)
RECURSIVE write_values(_, _)
RECURSIVE write_pairs(_, _)
RECURSIVE write_instance_variables(_, _)

\* A call of write_value added to the history of the dump.
called(D, handle) == logged(D, [ev |-> "value", handle |-> handle, at |-> Len(D.out)])

\* A loop that writes every element twice.
write_values_twice(D, value) ==
    IF value = <<>> THEN D
    ELSE LET rest(item) == IF failed(item) THEN item ELSE write_values(item, Tail(value))
             again(item) == IF failed(item) THEN item ELSE write_value(item, Head(value))
         IN  rest(again(write_value(D, Head(value))))

\* `for value in value.value().iter() { self.write_value(*value)?; }`
write_values(D, value) ==
    IF value = <<>> THEN D
    ELSE LET rest(item) == IF failed(item) THEN item ELSE write_values(item, Tail(value))
         IN  rest(write_value(D, Head(value)))

\* `for (key, value) in value.iter() { write_value(*key)?; write_value(*value)?; }`
write_pairs(D, pairs) ==
    IF pairs = <<>> THEN D
    ELSE LET rest(value) == IF failed(value) THEN value ELSE write_pairs(value, Tail(pairs))
             second(key) == IF failed(key) THEN key ELSE write_value(key, Head(pairs)[2])
         IN  rest(second(write_value(D, Head(pairs)[1])))

write_instance_variables(D, instance_variables) ==
    LET num_vars == usize_fixnum(D, Len(instance_variables))
    IN  IF failed(num_vars) THEN num_vars
        ELSE write_pairs(write_fixnum(num_vars, Len(instance_variables)), instance_variables)

write_value(D, handle) ==
    LET found == get(D.arena, handle)
        value == unwrap(found)
        \* Array
        array_items(len) ==
            IF failed(len) THEN len
            ELSE write_values(write_fixnum(write_byte(len, VALUE_KIND_ARRAY), Len(value.value)),
                              value.value)
        \* Hash
        hash_tag(link) ==
            IF is_some(value.default_value)
            THEN write_byte(link, VALUE_KIND_HASH_DEFAULT)
            ELSE write_byte(link, VALUE_KIND_HASH)
        hash_pairs(num_vars) ==
            IF failed(num_vars) THEN num_vars
            ELSE write_pairs(write_fixnum(num_vars, Len(value.value)), value.value)
        hash_default(pairs) ==
            IF failed(pairs) THEN pairs
            ELSE IF is_some(value.default_value) THEN write_value(pairs, unwrap(value.default_value))
            ELSE pairs
        \* Object, and the instance variables of a String or a UserDefined
        block(written) ==
            IF failed(written) THEN written
            ELSE write_instance_variables(written, IF value.kind = "Object"
                                                   THEN value.instance_variables
                                                   ELSE unwrap(value.instance_variables))
        \* UserDefined
        user_wrapper(link) ==
            IF is_some(value.instance_variables)
            THEN write_byte(link, VALUE_KIND_INSTANCE_VARIABLES)
            ELSE link
        user_data(name) == IF failed(name) THEN name ELSE write_byte_string(name, value.value)
        user_block(data) ==
            IF failed(data) THEN data
            ELSE IF is_some(value.instance_variables)
            THEN write_instance_variables(data, unwrap(value.instance_variables))
            ELSE data
        linked(link) ==
            IF failed(link) \/ link.ret THEN link
            ELSE IF value.kind = "Array" THEN array_items(usize_fixnum(link, Len(value.value)))
            ELSE IF value.kind = "Hash"
            THEN hash_default(hash_pairs(usize_fixnum(hash_tag(link), Len(value.value))))
            ELSE IF value.kind = "Object"
            THEN block(write_value(write_byte(link, VALUE_KIND_OBJECT), value.name))
            ELSE IF value.kind = "String"
            THEN IF is_some(value.instance_variables)
                 THEN block(write_byte_string(
                                write_byte(write_byte(link, VALUE_KIND_INSTANCE_VARIABLES),
                                           VALUE_KIND_STRING),
                                value.value))
                 ELSE write_byte_string(write_byte(link, VALUE_KIND_STRING), value.value)
            ELSE user_block(user_data(write_value(write_byte(user_wrapper(link), VALUE_KIND_USER_DEFINED),
                                                  value.name)))
    IN  IF ~is_some(found) THEN fail(called(D, handle), Error_InvalidValueHandle(handle))
        ELSE IF value.kind = "Nil" THEN write_byte(called(D, handle), VALUE_KIND_NIL)
        ELSE IF value.kind = "Bool"
        THEN (IF value.value THEN write_byte(called(D, handle), VALUE_KIND_TRUE)
              ELSE write_byte(called(D, handle), VALUE_KIND_FALSE))
        ELSE IF value.kind = "Fixnum"
        THEN write_fixnum(write_byte(called(D, handle), VALUE_KIND_FIXNUM), value.value)
        ELSE IF value.kind = "Symbol" THEN write_value_symbol_like(called(D, handle), handle, value)
        ELSE linked(try_write_value_object_link(called(D, handle), handle))

\* Dumper::dump: the header, then the root.
Dumper_dump(D) == write_value(write_header(D), root(D.arena))

\* dump(writer, value_arena)
dump(writer, value_arena) == Dumper_dump(Dumper_new(writer, value_arena))

(***************************************************************************)
(* load.rs: Loader                                                         *)
(*   bytes, pos   : the reader: its bytes and how many have been read      *)
(*   symbol_links : Vec of Symbol handles                                  *)
(*   object_links : Vec of handles                                         *)
(*   log          : history of what the loader did (not program state)     *)
(***************************************************************************)
Loader_new(reader) ==
    [bytes |-> reader, pos |-> 0, arena |-> ValueArena_new, symbol_links |-> <<>>,
     object_links |-> <<>>, err |-> Ok, ret |-> 0, log |-> <<>>]

read_byte(L) ==
    IF L.pos < Len(L.bytes)
    THEN [L EXCEPT !.pos = @ + 1, !.ret = L.bytes[L.pos + 1]]
    ELSE fail(L, Error_Io)

\* Read::read_exact into a buffer of len bytes
read_exact(L, len) ==
    IF L.pos + len <= Len(L.bytes)
    THEN [L EXCEPT !.pos = @ + len, !.ret = SubSeq(L.bytes, L.pos + 1, L.pos + len)]
    ELSE fail(L, Error_Io)

read_header_lenient(L) ==
    LET major == read_byte(L)
        minor == read_byte(major)
    IN  IF failed(major) THEN major
        ELSE IF failed(minor) THEN minor
        ELSE IF major.ret # MAJOR_VERSION
        THEN fail(minor, Error_InvalidVersion(major.ret, minor.ret))
        ELSE minor

read_header(L) ==
    LET major == read_byte(L)
        minor == read_byte(major)
    IN  IF failed(major) THEN major
        ELSE IF failed(minor) THEN minor
        ELSE IF major.ret # MAJOR_VERSION \/ minor.ret > MINOR_VERSION
        THEN fail(minor, Error_InvalidVersion(major.ret, minor.ret))
        ELSE minor

\* The loops of read_fixnum_value: byte payload bytes, least significant
\* first, are put into n; a negative n starts from -1 and has each lane
\* cleared before the byte is or-ed in.
RECURSIVE read_fixnum_loop(_, _, _, _, _)
read_fixnum_loop(L, positive, byte, i, n) ==
    IF i >= byte THEN return(L, n)
    ELSE LET cleared == IF positive THEN n ELSE i32_and(n, i32_not(lanes_i32(shl_lane(255, i))))
             put(L1) ==
                 IF failed(L1) THEN L1
                 ELSE read_fixnum_loop(L1, positive, byte, i + 1,
                                       i32_or(cleared, lanes_i32(shl_lane(L1.ret, i))))
         IN  put(read_byte(L))

read_fixnum_value(L) ==
    LET L1 == read_byte(L)
        len == L1.ret
        size_of_i32 == 4
    IN  IF failed(L1) THEN L1
        ELSE IF len = 0 THEN return(L1, 0)
        ELSE IF as_i8(len) > 0
        THEN IF len > 4 THEN return(L1, len - 5)
             ELSE IF len > size_of_i32 THEN fail(L1, Error_InvalidFixnumSize(len))
             ELSE read_fixnum_loop(L1, TRUE, len, 0, 0)
        ELSE IF as_i8(len) < -4 THEN return(L1, as_i8(len) + 5)
             ELSE IF as_u8(-as_i8(len)) > size_of_i32
             THEN fail(L1, Error_InvalidFixnumSize(as_u8(-as_i8(len))))
             ELSE read_fixnum_loop(L1, FALSE, as_u8(-as_i8(len)), 0, -1)

\* `usize::try_from(len)` of a decoded Fixnum, as read_byte_string and
\* the link and count readers do it; ret is the usize.
fixnum_usize(L) == IF L.ret < 0 THEN fail(L, Error_FixnumInvalidUSize) ELSE L

\* An arena call made by the loader: the arena is replaced by the one the
\* call leaves and the handle it returned is the result.
created(L, res) == [L EXCEPT !.arena = res.arena, !.ret = res.handle]

\* `self.object_links.push(handle)`
push_object_link(L, handle) ==
    logged([L EXCEPT !.object_links = Append(@, handle)],
           [ev |-> "register", handle |-> handle, index |-> Len(L.object_links)])

\* The slot left as it is.
overwrite_skipped(L, handle, value) == L

\* `*self.arena.get_mut(handle).unwrap() = value`
overwrite(L, handle, value) ==
    logged([L EXCEPT !.arena.arena[handle] = value],
           [ev |-> "overwrite", handle |-> handle, was |-> L.arena.arena[handle].kind])

read_byte_string(L) ==
    LET buffer(len) == IF failed(len) THEN len ELSE read_exact(len, len.ret)
    IN  buffer(fixnum_usize(read_fixnum_value(L)))

read_fixnum(L) ==
    LET create(value) ==
            IF failed(value) THEN value ELSE created(value, create_fixnum(value.arena, value.ret))
    IN  create(read_fixnum_value(L))

read_symbol(L) ==
    LET push(made) ==
            logged([made EXCEPT !.symbol_links = Append(@, made.ret)],
                   [ev |-> "define", handle |-> made.ret, index |-> Len(made.symbol_links)])
        create(symbol) ==
            IF failed(symbol) THEN symbol
            ELSE push(created(symbol, create_symbol(symbol.arena, symbol.ret)))
    IN  create(read_byte_string(L))

read_symbol_link(L) ==
    LET lookup(index) ==
            IF failed(index) THEN index
            ELSE IF index.ret >= Len(index.symbol_links)
            THEN fail(index, Error_MissingSymbolLink(index.ret))
            ELSE return(logged(index, [ev |-> "symbol_link", handle |-> index.symbol_links[index.ret + 1],
                                       index |-> index.ret, values |-> Len(L.arena.arena),
                                       left |-> Len(index.arena.arena)]),
                        index.symbol_links[index.ret + 1])
    IN  lookup(fixnum_usize(read_fixnum_value(L)))

\* A link that resolves to the first entry of the table whatever its index.
read_object_link_first(L) ==
    LET lookup(index) ==
            IF failed(index) THEN index
            ELSE IF index.ret >= Len(index.object_links)
            THEN fail(index, Error_MissingObjectLink(index.ret))
            ELSE return(logged(index, [ev |-> "object_link", handle |-> index.object_links[1],
                                       index |-> index.ret, values |-> Len(L.arena.arena),
                                       left |-> Len(index.arena.arena)]),
                        index.object_links[1])
    IN  lookup(fixnum_usize(read_fixnum_value(L)))

read_object_link(L) ==
    LET lookup(index) ==
            IF failed(index) THEN index
            ELSE IF index.ret >= Len(index.object_links)
            THEN fail(index, Error_MissingObjectLink(index.ret))
            ELSE return(logged(index, [ev |-> "object_link", handle |-> index.object_links[index.ret + 1],
                                       index |-> index.ret, values |-> Len(L.arena.arena),
                                       left |-> Len(index.arena.arena)]),
                        index.object_links[index.ret + 1])
    IN  lookup(fixnum_usize(read_fixnum_value(L)))

read_string(L) ==
    LET push(made) == return(push_object_link(made, made.ret), made.ret)
        create(data) ==
            IF failed(data) THEN data
            ELSE push(created(data, create_string(data.arena, data.ret)))
    IN  create(read_byte_string(L))

read_value_symbol_like(L) ==
    LET kind == read_byte(L)
    IN  IF failed(kind) THEN kind
        ELSE IF kind.ret = VALUE_KIND_SYMBOL THEN read_symbol(kind)
        ELSE IF kind.ret = VALUE_KIND_SYMBOL_LINK THEN read_symbol_link(kind)
        ELSE fail(kind, Error_UnexpectedValueKind(VALUE_KIND_SYMBOL, kind.ret))

\* The `I` arm of read_value once the inner value and the block are read:
\* the block is attached when the inner value is a String.  inner is the
\* tag byte the inner value began with, kept for the log only.
attach_instance_variables(L, inner, value, instance_variables) ==
    IF ~is_some(get(L.arena, value)) THEN fail(L, Error_InvalidValueHandle(value))
    ELSE IF unwrap(get(L.arena, value)).kind # "String" THEN fail(L, Error_NotAnObject)
    ELSE return(logged([L EXCEPT !.arena.arena[value] =
                                     set_instance_variables(@, Some(instance_variables))],
                       [ev |-> "attach", handle |-> value, block |-> instance_variables, inner |-> inner]),
                value)

RECURSIVE read_value(_)
RECURSIVE read_values(_, _, _)
RECURSIVE read_pairs(_, _, _)
RECURSIVE read_instance_variables_loop(_, _, _)
RECURSIVE read_instance_variables(_)
RECURSIVE read_array(_)
RECURSIVE read_hash(_)
RECURSIVE read_object(_)

\* `for _ in 0..len { value.push(self.read_value()?) }`
read_values(L, len, value) ==
    IF len = 0 THEN return(L, value)
    ELSE LET push(item) ==
                 IF failed(item) THEN item ELSE read_values(item, len - 1, Append(value, item.ret))
         IN  push(read_value(L))

\* `for _ in 0..num_pairs { pairs.push((self.read_value()?, self.read_value()?)) }`
read_pairs(L, num_pairs, pairs) ==
    IF num_pairs = 0 THEN return(L, pairs)
    ELSE LET push(symbol, value) ==
                 IF failed(symbol) THEN symbol
                 ELSE IF failed(value) THEN value
                 ELSE read_pairs(value, num_pairs - 1, Append(pairs, <<symbol.ret, value.ret>>))
             second(symbol) == push(symbol, read_value(symbol))
         IN  second(read_value(L))

read_instance_variables_loop(L, num_pairs, instance_variables) ==
    IF num_pairs = 0 THEN return(L, instance_variables)
    ELSE LET push(symbol, value) ==
                 IF failed(symbol) THEN symbol
                 ELSE IF failed(value) THEN value
                 ELSE read_instance_variables_loop(value, num_pairs - 1,
                                                   Append(instance_variables, <<symbol.ret, value.ret>>))
             second(symbol) == push(symbol, read_value(symbol))
         IN  second(read_value_symbol_like(L))

read_instance_variables(L) ==
    LET pairs(num_pairs) ==
            IF failed(num_pairs) THEN num_pairs
            ELSE read_instance_variables_loop(num_pairs, num_pairs.ret, <<>>)
    IN  pairs(fixnum_usize(read_fixnum_value(L)))

read_array(L) ==
    LET made == created(L, create_nil(L.arena))
        handle == made.ret
        store(value) ==
            IF failed(value) THEN value
            ELSE return(overwrite(value, handle, ArrayValue(value.ret)), handle)
        elements(len) == IF failed(len) THEN len ELSE read_values(len, len.ret, <<>>)
    IN  store(elements(fixnum_usize(read_fixnum_value(push_object_link(made, handle)))))

read_hash(L) ==
    LET create(pairs) ==
            IF failed(pairs) THEN pairs
            ELSE created(pairs, create_hash(pairs.arena, pairs.ret, None))
        elements(num_pairs) ==
            IF failed(num_pairs) THEN num_pairs ELSE read_pairs(num_pairs, num_pairs.ret, <<>>)
    IN  create(elements(fixnum_usize(read_fixnum_value(L))))

read_object(L) ==
    LET made == created(L, create_nil(L.arena))
        handle == made.ret
        store(name, instance_variables) ==
            IF failed(name) THEN name
            ELSE IF failed(instance_variables) THEN instance_variables
            ELSE return(overwrite(instance_variables, handle,
                                  ObjectValue(name.ret, instance_variables.ret)),
                        handle)
        block(name) == store(name, read_instance_variables(name))
    IN  block(read_value_symbol_like(push_object_link(made, handle)))

read_value(L) ==
    LET attach(kind, value, instance_variables) ==
            IF failed(value) THEN value
            ELSE IF failed(instance_variables) THEN instance_variables
            ELSE attach_instance_variables(instance_variables, kind.bytes[kind.pos + 1], value.ret,
                                           instance_variables.ret)
        block(kind, value) == attach(kind, value, read_instance_variables(value))
        value_of(kind) ==
            IF failed(kind) THEN kind
            ELSE IF kind.ret = VALUE_KIND_NIL THEN created(kind, create_nil(kind.arena))
            ELSE IF kind.ret = VALUE_KIND_TRUE THEN created(kind, create_bool(kind.arena, TRUE))
            ELSE IF kind.ret = VALUE_KIND_FALSE THEN created(kind, create_bool(kind.arena, FALSE))
            ELSE IF kind.ret = VALUE_KIND_FIXNUM THEN read_fixnum(kind)
            ELSE IF kind.ret = VALUE_KIND_SYMBOL THEN read_symbol(kind)
            ELSE IF kind.ret = VALUE_KIND_SYMBOL_LINK THEN read_symbol_link(kind)
            ELSE IF kind.ret = VALUE_KIND_OBJECT_LINK THEN read_object_link(kind)
            ELSE IF kind.ret = VALUE_KIND_INSTANCE_VARIABLES THEN block(kind, read_value(kind))
            ELSE IF kind.ret = VALUE_KIND_ARRAY THEN read_array(kind)
            ELSE IF kind.ret = VALUE_KIND_HASH THEN read_hash(kind)
            ELSE IF kind.ret = VALUE_KIND_OBJECT THEN read_object(kind)
            ELSE IF kind.ret = VALUE_KIND_STRING THEN read_string(kind)
            ELSE fail(kind, Error_InvalidValueKind(kind.ret))
    IN  value_of(read_byte(L))

\* A load that reads one byte past the value when there is one.
Loader_load_ahead(L) ==
    LET set_root(value) ==
            IF failed(value) THEN value
            ELSE [value EXCEPT !.arena = replace_root(value.arena, value.ret).arena,
                               !.pos = IF @ < Len(value.bytes) THEN @ + 1 ELSE @]
        value_of(header) == IF failed(header) THEN header ELSE read_value(header)
    IN  set_root(value_of(read_header(L)))

\* Loader::load: the header, one value, and the value becomes the root.
Loader_load(L) ==
    LET set_root(value) ==
            IF failed(value) THEN value
            ELSE [value EXCEPT !.arena = replace_root(value.arena, value.ret).arena]
        value_of(header) == IF failed(header) THEN header ELSE read_value(header)
    IN  set_root(value_of(read_header(L)))

\* load(reader)
load(reader) == Loader_load(Loader_new(reader))

(***************************************************************************)
(* The arena driven through its public API                                 *)
(***************************************************************************)
\* Handles a caller can pass: every live handle of this arena, and one
\* handle of another arena that is not (yet) a live position here.
HandleArgs(a) == 1..(Len(a.arena) + 1)

BoolArgs == {TRUE, FALSE}

FixnumArgs == {-124}

BytesArgs == {<<97>>, <<98>>}

ChildrenArgs(a) == {<<>>} \cup {<<h>> : h \in HandleArgs(a)}

PairsArgs(a) == {<<>>} \cup {<< <<h, h>> >> : h \in HandleArgs(a)}

\* A Hash is made without a default value, or empty with the root as default.
HashArgs(a) == {<<value, None>> : value \in PairsArgs(a)} \cup {<< <<>>, Some(a.root)>>}

\* An Object is made without instance variables, or with one named as itself.
IvarArgs(a, name) == {<<>>, << <<name, a.root>> >>}

NameArgs == {<<97>>}

Idle == [pc |-> "idle"]

\* Record a call of the API: the arena it leaves, and what it returned.
Called(op, args, res, ret) ==
    /\ Len(calls) < MaxOps
    /\ arena' = res.arena
    /\ calls' = Append(calls, [op |-> op, args |-> args, ret |-> ret])
    /\ UNCHANGED <<fx, input, pc, loader, dumper, reloader, ex>>

CreateNil == Called("create_nil", <<>>, create_nil(arena), create_nil(arena).handle)

CreateBool == \E value \in BoolArgs :
    Called("create_bool", <<value>>, create_bool(arena, value), create_bool(arena, value).handle)

CreateFixnum == \E value \in FixnumArgs :
    Called("create_fixnum", <<value>>, create_fixnum(arena, value), create_fixnum(arena, value).handle)

CreateSymbol == \E value \in BytesArgs :
    Called("create_symbol", <<value>>, create_symbol(arena, value), create_symbol(arena, value).handle)

CreateNewSymbol == \E value \in BytesArgs :
    Called("create_new_symbol", <<value>>, create_new_symbol(arena, value), create_new_symbol(arena, value).handle)

CreateArray == \E value \in ChildrenArgs(arena) :
    Called("create_array", <<value>>, create_array(arena, value), create_array(arena, value).handle)

CreateHash == \E args \in HashArgs(arena) :
    Called("create_hash", args, create_hash(arena, args[1], args[2]), create_hash(arena, args[1], args[2]).handle)

CreateObject == \E name \in HandleArgs(arena) : \E instance_variables \in IvarArgs(arena, name) :
    Called("create_object", <<name, instance_variables>>, create_object(arena, name, instance_variables),
           create_object(arena, name, instance_variables).handle)

CreateString == \E value \in BytesArgs :
    Called("create_string", <<value>>, create_string(arena, value), create_string(arena, value).handle)

CreateUserDefined == \E name \in HandleArgs(arena), value \in NameArgs :
    Called("create_user_defined", <<name, value>>, create_user_defined(arena, name, value),
           create_user_defined(arena, name, value).handle)

ReplaceRoot == \E new_root \in HandleArgs(arena) :
    Called("replace_root", <<new_root>>, replace_root(arena, new_root), replace_root(arena, new_root).old)

InitArena ==
    /\ arena = ValueArena_new
    /\ calls = <<>>
    /\ fx = Idle
    /\ input = <<>>
    /\ pc = "idle"
    /\ loader = Idle
    /\ dumper = Idle
    /\ reloader = Idle
    /\ ex = Idle

NextArena ==
    \/ CreateNil
    \/ CreateBool
    \/ CreateFixnum
    \/ CreateSymbol
    \/ CreateNewSymbol
    \/ CreateArray
    \/ CreateHash
    \/ CreateObject
    \/ CreateString
    \/ CreateUserDefined
    \/ ReplaceRoot

SpecArena == InitArena /\ [][NextArena]_vars

(***************************************************************************)
(* The Fixnum codec: write_fixnum(value), then read_fixnum_value on the    *)
(* bytes written, followed by bytes that belong to whatever comes next.    *)
(***************************************************************************)
\* Every i32 within FixRange of 0, and the values around each change of
\* the encoded length, up to both ends of the i32 range.
FixnumSamples ==
    (-FixRange..FixRange)
        \cup {s * (p + d) : s \in {-1, 1}, p \in {256, 65536, 16777216}, d \in -2..2}
        \cup {I32_MAX - d : d \in 0..2} \cup {I32_MIN + d : d \in 0..2}

TrailingSamples == {<<>>, <<255>>, <<1, 2>>}

InitFixnum ==
    /\ fx \in {[pc |-> "start", value |-> v, trailing |-> t, out |-> <<>>, loader |-> Loader_new(<<>>)] :
                  v \in FixnumSamples, t \in TrailingSamples}
    /\ arena = ValueArena_new
    /\ calls = <<>>
    /\ input = <<>>
    /\ pc = "idle"
    /\ loader = Idle
    /\ dumper = Idle
    /\ reloader = Idle
    /\ ex = Idle

FxEncode ==
    /\ fx.pc = "start"
    /\ fx' = [fx EXCEPT !.pc = "encoded",
                        !.out = write_fixnum(Dumper_new(<<>>, ValueArena_new), fx.value).out]
    /\ UNCHANGED <<arena, calls, input, pc, loader, dumper, reloader, ex>>

FxDecode ==
    /\ fx.pc = "encoded"
    /\ fx' = [fx EXCEPT !.pc = "decoded",
                        !.loader = read_fixnum_value(Loader_new(fx.out \o fx.trailing))]
    /\ UNCHANGED <<arena, calls, input, pc, loader, dumper, reloader, ex>>

NextFixnum ==
    \/ FxEncode
    \/ FxDecode

SpecFixnum == InitFixnum /\ [][NextFixnum]_vars

(***************************************************************************)
(* The round trip: load(input), dump of the loaded arena, and load of the  *)
(* dumped bytes.                                                           *)
(***************************************************************************)
Header == <<MAJOR_VERSION, MINOR_VERSION>>

\* The bytes the bodies are enumerated over: the Fixnums 0 and 1 and the
\* tags of Nil, Fixnum, Symbol, the links, the wrapper and the composites.
Alphabet ==
    {0, 6, VALUE_KIND_NIL, VALUE_KIND_FIXNUM, VALUE_KIND_SYMBOL, VALUE_KIND_SYMBOL_LINK,
     VALUE_KIND_OBJECT_LINK, VALUE_KIND_INSTANCE_VARIABLES, VALUE_KIND_ARRAY, VALUE_KIND_HASH,
     VALUE_KIND_OBJECT, VALUE_KIND_STRING}

Bodies == UNION {[1..k -> Alphabet] : k \in 0..MaxBody}

\* Longer bodies, one per shape of stream.
Corpus ==
    { <<84>>, <<70>>, <<48, 48>>,                               \* true, false, nil and a trailing byte
      <<105, 127>>, <<105, 254, 133>>, <<105, 4, 255, 255, 255, 127>>,
      <<105, 1, 123>>, <<105, 255, 132>>, <<105, 128>>, <<105, 252, 0, 0, 0, 128>>,
      <<105, 1, 1>>, <<105, 5>>, <<105, 251>>,                  \* Fixnums not written by write_fixnum
      <<91, 6, 64, 250>>,                                       \* [link -1]
      <<91, 7, 105, 6, 105, 7>>,                                \* [1, 2]
      <<58, 10, 104, 101, 108, 108, 111>>,                      \* :hello
      <<91, 7, 58, 6, 97, 59, 0>>,                              \* [:a, :a] by link
      <<91, 7, 58, 6, 97, 58, 6, 97>>,                          \* [:a, :a] defined twice
      <<91, 6, 64, 0>>,                                         \* a = [a]
      <<91, 6, 91, 6, 64, 0>>, <<91, 6, 91, 6, 64, 6>>,         \* a = [[a]], [b = [b]]
      <<91, 7, 34, 6, 97, 64, 6>>,                              \* [s = "a", s]
      <<111, 58, 6, 65, 0>>,                                    \* #<A>
      <<111, 58, 6, 65, 6, 58, 6, 97, 64, 0>>,                  \* o = #<A a=o>
      <<111, 58, 6, 65, 7, 58, 6, 97, 48, 59, 6, 48>>,          \* #<A a=nil a=nil>
      <<73, 34, 0, 7, 58, 6, 97, 48, 59, 0, 48>>,               \* "" with a=nil a=nil
      <<34, 6, 97>>,                                            \* "a"
      <<73, 34, 0, 0>>,                                         \* "" with an empty block
      <<73, 34, 6, 97, 6, 58, 6, 69, 84>>,                      \* "a" with E=true
      <<73, 34, 0, 6, 58, 6, 97, 64, 0>>,                       \* s = "" with a=s
      <<73, 73, 34, 0, 0, 0>>,                                  \* a wrapper around a wrapper
      <<91, 7, 34, 0, 73, 64, 6, 0>>,                           \* [s = "", wrapper around link to s]
      <<91, 7, 73, 34, 0, 0, 73, 64, 6, 6, 58, 6, 97, 48>>,     \* [wrapped s, another wrapper on s]
      <<73, 48, 0>>, <<73, 91, 0, 0>>,                          \* a wrapper around nil, around []
      <<73, 84, 0>>, <<73, 105, 6, 0>>, <<73, 58, 6, 97, 0>>,   \* ... around true, 1, :a,
      <<73, 123, 0, 0>>, <<73, 111, 58, 6, 65, 0, 0>>,          \* ... {}, #<A>,
      <<73, 117, 58, 6, 65, 0, 0>>,                             \* ... and a UserDefined
      <<123, 0>>, <<123, 6, 105, 6, 105, 7>>,                   \* {}, {1 => 2}
      <<123, 6, 48, 64, 0>>,                                    \* h = {nil => h}
      <<91, 6, 123, 6, 48, 64, 6>>,                             \* [h = {nil => h}]
      <<91, 8, 123, 0, 34, 0, 64, 6>>,                          \* [{}, s = "", link 1]
      <<91, 8, 123, 0, 34, 0, 64, 7>>,                          \* [{}, s = "", link 2]
      <<125, 0, 48>>, <<117, 58, 6, 65, 0>>, <<102, 6, 49>>,    \* }, u and f tags
      <<91, 250>>, <<64, 250>>, <<59, 250>>, <<34, 250>> }      \* negative length and index

\* Headers other than 4.8, and inputs that end within the header.
HeaderSamples ==
    {<<MAJOR_VERSION, minor>> : minor \in {0, 7, 9, 255}}
        \cup {<<major, MINOR_VERSION>> : major \in {0, 3, 5, 255}}
        \cup {<<5, 9>>}

Streams ==
    {Header \o body : body \in Bodies \cup Corpus}
        \cup {header \o body : header \in HeaderSamples, body \in {<<>>, <<48>>, <<91, 6, 64, 0>>}}
        \cup {<<>>, <<4>>, <<5>>}

InitLoad ==
    /\ input \in Streams
    /\ pc = "start"
    /\ loader = Idle
    /\ dumper = Idle
    /\ reloader = Idle
    /\ arena = ValueArena_new
    /\ calls = <<>>
    /\ fx = Idle
    /\ ex = Idle

Load ==
    /\ pc = "start"
    /\ pc' = "loaded"
    /\ loader' = load(input)
    /\ UNCHANGED <<input, dumper, reloader, arena, calls, fx, ex>>

\* dump is called on the arena load returned.
Dump ==
    /\ pc = "loaded"
    /\ ~failed(loader)
    /\ pc' = "dumped"
    /\ dumper' = dump(<<>>, loader.arena)
    /\ UNCHANGED <<input, loader, reloader, arena, calls, fx, ex>>

Reload ==
    /\ pc = "dumped"
    /\ ~failed(dumper)
    /\ pc' = "reloaded"
    /\ reloader' = load(dumper.out)
    /\ UNCHANGED <<input, loader, dumper, arena, calls, fx, ex>>

NextLoad ==
    \/ Load
    \/ Dump
    \/ Reload

SpecLoad == InitLoad /\ [][NextLoad]_vars

(***************************************************************************)
(* An arena built through the public API, dumped, and the dump handed to   *)
(* load: dump(A), then load, dump and load again as above.                 *)
(***************************************************************************)
\* The calls an arena is built from.  Handles are the ones earlier calls
\* returned: 2 is the first value created, 3 the second, 4 the third.
ApiCalls ==
    << [op |-> "create_fixnum", value |-> 300],
      [op |-> "create_symbol", value |-> <<97>>],
      [op |-> "create_new_symbol", value |-> <<97>>],
      [op |-> "create_symbol", value |-> <<98>>],
      [op |-> "create_string", value |-> <<97>>],
      [op |-> "create_array", value |-> <<2>>],
      [op |-> "create_array", value |-> <<2, 3, 3>>],
      [op |-> "create_hash", value |-> << <<2, 3>> >>, default_value |-> None],
      [op |-> "create_hash", value |-> <<>>, default_value |-> Some(2)],
      [op |-> "create_object", name |-> 2, instance_variables |-> << <<2, 3>> >>],
      [op |-> "create_user_defined", name |-> 2, value |-> <<97>>] >>

\* A TypedValueHandle<SymbolValue> is only handed out by create_symbol and
\* create_new_symbol: here it is a Symbol, or it came from another arena
\* and is not live here.
symbol_handle(a, handle) == is_some(get(a, handle)) => unwrap(get(a, handle)).kind = "Symbol"

typed(a, call) ==
    /\ call.op \in {"create_object", "create_user_defined"} => symbol_handle(a, call.name)
    /\ call.op = "create_object" =>
           \A i \in 1..Len(call.instance_variables) : symbol_handle(a, call.instance_variables[i][1])

api_call(a, call) ==
    IF call.op = "create_fixnum" THEN create_fixnum(a, call.value).arena
    ELSE IF call.op = "create_symbol" THEN create_symbol(a, call.value).arena
    ELSE IF call.op = "create_new_symbol" THEN create_new_symbol(a, call.value).arena
    ELSE IF call.op = "create_string" THEN create_string(a, call.value).arena
    ELSE IF call.op = "create_array" THEN create_array(a, call.value).arena
    ELSE IF call.op = "create_hash" THEN create_hash(a, call.value, call.default_value).arena
    ELSE IF call.op = "create_object" THEN create_object(a, call.name, call.instance_variables).arena
    ELSE create_user_defined(a, call.name, call.value).arena

\* The arenas n calls or fewer build.
RECURSIVE ApiBuilt(_)
ApiBuilt(n) ==
    IF n = 0 THEN {ValueArena_new}
    ELSE ApiBuilt(n - 1) \cup
         {api_call(ai[1], ApiCalls[ai[2]]) :
             ai \in {bi \in ApiBuilt(n - 1) \X (1..Len(ApiCalls)) : typed(bi[1], ApiCalls[bi[2]])}}

RECURSIVE api_script(_, _)
api_script(a, script) ==
    IF script = <<>> THEN a ELSE api_script(api_call(a, Head(script)), Tail(script))

\* Longer call sequences, one per shape of arena: [h, s, s] with h = {},
\* [u, u] with u a UserDefined, [:a, :a] of one Symbol and of two Symbols
\* of the same bytes, and [o, "a", o] with o = #<a a="a">.
ApiCorpus ==
    << << [op |-> "create_hash", value |-> <<>>, default_value |-> None],
         [op |-> "create_string", value |-> <<97>>],
         [op |-> "create_array", value |-> <<2, 3, 3>>] >>,
      << [op |-> "create_symbol", value |-> <<97>>],
         [op |-> "create_user_defined", name |-> 2, value |-> <<97>>],
         [op |-> "create_array", value |-> <<3, 3>>] >>,
      << [op |-> "create_symbol", value |-> <<97>>],
         [op |-> "create_symbol", value |-> <<97>>],
         [op |-> "create_array", value |-> <<2, 2>>] >>,
      << [op |-> "create_new_symbol", value |-> <<97>>],
         [op |-> "create_new_symbol", value |-> <<97>>],
         [op |-> "create_array", value |-> <<2, 3, 2, 3>>] >>,
      << [op |-> "create_symbol", value |-> <<97>>],
         [op |-> "create_string", value |-> <<97>>],
         [op |-> "create_object", name |-> 2, instance_variables |-> << <<2, 3>> >>],
         [op |-> "create_array", value |-> <<4, 3, 4>>] >> >>

\* Any handle is then made the root: a value of the arena, or a handle
\* that is not live in it.
ApiArenas ==
    {replace_root(rooted[1], rooted[2]).arena :
        rooted \in {an \in (ApiBuilt(MaxScript)
                              \cup {api_script(ValueArena_new, ApiCorpus[i]) : i \in 1..Len(ApiCorpus)})
                           \X (1..(MaxScript + 3)) : an[2] \in HandleArgs(an[1])}}

InitDump ==
    /\ arena \in ApiArenas
    /\ pc = "built"
    /\ input = <<>>
    /\ loader = Idle
    /\ dumper = Idle
    /\ reloader = Idle
    /\ calls = <<>>
    /\ fx = Idle
    /\ ex = Idle

\* dump(&mut bytes, &arena); on Ok the bytes are what load is given.
DumpArena ==
    /\ pc = "built"
    /\ LET written(D) ==
               /\ dumper' = D
               /\ input' = D.out
               /\ pc' = IF failed(D) THEN "failed" ELSE "start"
       IN  written(dump(<<>>, arena))
    /\ UNCHANGED <<loader, reloader, arena, calls, fx, ex>>

NextDump ==
    \/ DumpArena
    \/ Load
    \/ Dump
    \/ Reload

SpecDump == InitDump /\ [][NextDump]_vars

(***************************************************************************)
(* convert/from_value.rs: FromValueContext.  One extraction                *)
(* ctx.from_value::<T>(handle) runs as a sequence of steps:                *)
(*   call   : from_value is entered for arg = (handle, type)               *)
(*   return : a from_value call has returned Ok to its caller              *)
(*   unwind : a from_value call has returned Err to its caller             *)
(*   done   : the outermost call has returned                              *)
(* frames holds the from_value calls that are inside the loop of           *)
(* Vec<T>::from_value; stack is the context's visitation stack.            *)
(*                                                                         *)
(* A type is the sequence of its constructors: <<"Vec", "i32">> is         *)
(* Vec<i32>.  <<"Tree">> is a recursive type, struct Tree(Vec<Tree>),      *)
(* extracted through Vec<Tree>.                                            *)
(***************************************************************************)
FromValueError_Cycle(handle) == [name |-> "Cycle", handle |-> handle]

FromValueError_InvalidValueHandle(handle) == [name |-> "InvalidValueHandle", handle |-> handle]

FromValueError_UnexpectedValueKind(kind) == [name |-> "UnexpectedValueKind", kind |-> kind]

contains(stack, handle) == \E i \in 1..Len(stack) : stack[i] = handle

begin_handle_top(X, handle) ==
    IF X.stack # <<>> /\ X.stack[Len(X.stack)] = handle
    THEN fail(X, FromValueError_Cycle(handle))
    ELSE [X EXCEPT !.stack = Append(@, handle)]

begin_handle(X, handle) ==
    IF contains(X.stack, handle)
    THEN fail(X, FromValueError_Cycle(handle))
    ELSE [X EXCEPT !.stack = Append(@, handle)]

\* A context whose guards leave their handle on the stack.
end_handle_keep(X, handle) == X

\* pop, unwrap, and the assertion that the popped handle is the guard's
end_handle(X, handle) ==
    IF X.stack = <<>> \/ X.stack[Len(X.stack)] # handle
    THEN [X EXCEPT !.stack = SubSeq(@, 1, Len(@) - 1), !.panicked = TRUE]
    ELSE [X EXCEPT !.stack = SubSeq(@, 1, Len(@) - 1)]

\* T::from_value(ctx, value) up to its first call of ctx.from_value:
\* "ok", "err" with the error, or "iter" over the children of an Array
\* with the type of the elements.
RECURSIVE FromValue_from_value(_, _)
FromValue_from_value(ty, value) ==
    LET expect(kind) == IF value.kind = kind THEN [t |-> "ok"]
                        ELSE [t |-> "err", err |-> FromValueError_UnexpectedValueKind(value.kind)]
    IN  IF Head(ty) = "Value" THEN [t |-> "ok"]
        ELSE IF Head(ty) = "bool" THEN expect("Bool")
        ELSE IF Head(ty) = "i32" THEN expect("Fixnum")
        ELSE IF Head(ty) = "Option"
        THEN (IF value.kind = "Nil" THEN [t |-> "ok"] ELSE FromValue_from_value(Tail(ty), value))
        ELSE IF Head(ty) \in {"Vec", "Tree"}
        THEN (IF value.kind = "Array"
              THEN [t |-> "iter", children |-> value.value,
                    elem |-> IF Head(ty) = "Tree" THEN ty ELSE Tail(ty)]
              ELSE expect("Array"))
        ELSE expect(Head(ty))

\* ctx.from_value(handle) is entered: begin_handle, the lookup, and
\* T::from_value up to the first element of a Vec.
ExCall ==
    /\ ex.pc = "call"
    /\ LET handle == ex.arg.handle
           begun == begin_handle(ex, handle)
           found == get(ex.arena, handle)
           res == FromValue_from_value(ex.arg.ty, unwrap(found))
       IN  ex' =
             IF failed(begun) THEN [begun EXCEPT !.pc = "unwind"]
             ELSE IF ~is_some(found)
             THEN [end_handle(fail(begun, FromValueError_InvalidValueHandle(handle)), handle)
                      EXCEPT !.pc = "unwind"]
             ELSE IF res.t = "err"
             THEN [end_handle(fail(begun, res.err), handle) EXCEPT !.pc = "unwind"]
             ELSE IF res.t = "ok" \/ res.children = <<>>
             THEN [end_handle(begun, handle) EXCEPT !.pc = "return"]
             ELSE [begun EXCEPT !.frames = Append(@, [handle |-> handle, elem |-> res.elem,
                                                       children |-> res.children, idx |-> 1]),
                                !.arg = [handle |-> res.children[1], ty |-> res.elem]]
    /\ UNCHANGED <<arena, calls, fx, input, pc, loader, dumper, reloader>>

\* A call returned Ok: the loop of the calling Vec<T>::from_value goes on
\* to the next element, or ends, and then the caller's guard is dropped.
ExReturn ==
    /\ ex.pc = "return"
    /\ LET top == ex.frames[Len(ex.frames)]
       IN  ex' =
             IF ex.frames = <<>> THEN [ex EXCEPT !.pc = "done"]
             ELSE IF top.idx < Len(top.children)
             THEN [ex EXCEPT !.pc = "call", !.frames[Len(ex.frames)].idx = top.idx + 1,
                             !.arg = [handle |-> top.children[top.idx + 1], ty |-> top.elem]]
             ELSE [end_handle(ex, top.handle) EXCEPT !.frames = SubSeq(@, 1, Len(@) - 1)]
    /\ UNCHANGED <<arena, calls, fx, input, pc, loader, dumper, reloader>>

\* An error return on which the caller's guard is not dropped.
ExUnwind_leak ==
    /\ ex.pc = "unwind"
    /\ ex' = IF ex.frames = <<>> THEN [ex EXCEPT !.pc = "done"]
             ELSE [ex EXCEPT !.frames = SubSeq(@, 1, Len(@) - 1)]
    /\ UNCHANGED <<arena, calls, fx, input, pc, loader, dumper, reloader>>

\* A call returned Err: `?` returns it from the caller, whose guard is
\* dropped on the way out.
ExUnwind ==
    /\ ex.pc = "unwind"
    /\ LET top == ex.frames[Len(ex.frames)]
       IN  ex' =
             IF ex.frames = <<>> THEN [ex EXCEPT !.pc = "done"]
             ELSE [end_handle(ex, top.handle) EXCEPT !.frames = SubSeq(@, 1, Len(@) - 1)]
    /\ UNCHANGED <<arena, calls, fx, input, pc, loader, dumper, reloader>>

\* The bytes the extracted arenas are loaded from: arrays, links, nil and
\* Fixnums.
ExAlphabet == {0, 6, 7, VALUE_KIND_NIL, VALUE_KIND_FIXNUM, VALUE_KIND_OBJECT_LINK, VALUE_KIND_ARRAY}

ExBodies == UNION {[1..k -> ExAlphabet] : k \in 0..MaxExBody}

\* An Array is made empty, of itself or the other Array, of the same
\* element twice, or of a handle that is not live.
ExChildren == {<<>>, <<2>>, <<3>>, <<3, 3>>, <<1, 3>>, <<4>>}

\* Arenas as load returns them, and arenas of two Arrays built through the
\* API, the first Array being the root.
ExArenas ==
    {load(Header \o body).arena : body \in {b \in ExBodies : ~failed(load(Header \o b))}}
        \cup {replace_root(create_array(create_array(ValueArena_new, first).arena, second).arena, 2).arena :
                 first \in ExChildren, second \in ExChildren}

ExTypes == {<<"Value">>, <<"i32">>, <<"Vec", "i32">>, <<"Vec", "Option", "Value">>,
            <<"Vec", "Vec", "i32">>, <<"Tree">>}

InitExtract ==
    /\ ex \in {[pc |-> "call", arena |-> a, stack |-> <<>>, frames |-> <<>>, err |-> Ok,
                panicked |-> FALSE, arg |-> [handle |-> h, ty |-> ty], top |-> [handle |-> h, ty |-> ty]] :
                  a \in ExArenas, h \in 1..3, ty \in ExTypes}
    /\ arena = ValueArena_new
    /\ calls = <<>>
    /\ fx = Idle
    /\ input = <<>>
    /\ pc = "idle"
    /\ loader = Idle
    /\ dumper = Idle
    /\ reloader = Idle

NextExtract ==
    \/ ExCall
    \/ ExReturn
    \/ ExUnwind

\* The steps of one call follow each other: a run does not stop halfway.
SpecExtract == InitExtract /\ [][NextExtract]_vars /\ WF_vars(NextExtract)

(***************************************************************************)
(* Claims about the arena                                                  *)
(***************************************************************************)
LastCall == calls[Len(calls)]

\* The step just taken was a call of one of the operations in ops.
JustCalled(ops) == Len(calls') = Len(calls) + 1 /\ calls'[Len(calls')].op \in ops

CreateOps == {"create_nil", "create_bool", "create_fixnum", "create_symbol", "create_new_symbol",
              "create_array", "create_hash", "create_object", "create_string", "create_user_defined"}

\* C4: on one arena, whatever calls come in between, two calls
\* create_symbol(s) with equal bytes s return the same handle, and the value
\* behind the handle create_symbol(s) returned is a Symbol with bytes s.
C4_SymbolInterning ==
    \A j \in 1..Len(calls) :
        calls[j].op = "create_symbol" =>
            /\ get(arena, calls[j].ret) = Some(SymbolValue(calls[j].args[1]))
            /\ \A i \in 1..(j - 1) :
                   (calls[i].op = "create_symbol" /\ calls[i].args = calls[j].args)
                       => calls[i].ret = calls[j].ret

C4_Witness ==
    /\ Len(calls) = 3
    /\ calls[1].op = "create_symbol"
    /\ calls[2].op = "create_new_symbol"
    /\ calls[3].op = "create_symbol"
    /\ calls[1].args = calls[3].args
    /\ calls[2].args = calls[3].args
    /\ calls[3].ret = calls[1].ret

\* C5: replace_root(h) returns the root handle as it was before the call,
\* leaves h as the root, and changes nothing else of the arena; for every
\* handle h, whether or not it is live in this arena.
C5_ReplaceRoot ==
    [][JustCalled({"replace_root"}) =>
          /\ calls'[Len(calls')].ret = root(arena)
          /\ root(arena') = calls'[Len(calls')].args[1]
          /\ arena'.arena = arena.arena
          /\ arena'.symbols = arena.symbols]_vars

C5_Witness ==
    /\ Len(calls) = 3
    /\ LastCall.op = "replace_root"
    /\ LastCall.ret # LastCall.args[1]
    /\ LastCall.ret # 1
    /\ root(arena) = LastCall.args[1]

\* C9: in every state of an arena reached through its public API, with
\* any handle passed to replace_root, the root resolves to a live value, and
\* right after new() that value is Nil.
C9_RootAlwaysLive ==
    /\ is_some(get(arena, root(arena)))
    /\ calls = <<>> => get(arena, root(arena)) = Some(NilValue)

\* C10: every create_<kind> call, create_symbol on a hit and on a miss
\* included, leaves the root unchanged and leaves every handle that was live
\* before the call resolving to the same value as before.
C10_CreateFrame ==
    [][JustCalled(CreateOps) =>
          /\ root(arena') = root(arena)
          /\ \A h \in 1..Len(arena.arena) : get(arena', h) = get(arena, h)]_vars

C10_Witness ==
    /\ Len(calls) = 3
    /\ calls[1].op = "create_new_symbol"
    /\ calls[2].op = "replace_root"
    /\ calls[3].op = "create_symbol"
    /\ calls[3].ret = calls[1].ret
    /\ root(arena) = calls[2].args[1]
    /\ root(arena) # 1

(***************************************************************************)
(* Claims about the Fixnum codec                                           *)
(***************************************************************************)
\* C2: for every i32 v, read_fixnum_value decodes the bytes written by
\* write_fixnum(v) back to exactly v, and reads exactly the bytes written.
C2_FixnumRoundTrip ==
    fx.pc = "decoded" =>
        /\ ~failed(fx.loader)
        /\ fx.loader.ret = fx.value
        /\ fx.loader.pos = Len(fx.out)

C2_Witness ==
    /\ fx.pc = "decoded"
    /\ fx.value = I32_MIN
    /\ fx.out = <<252, 0, 0, 0, 128>>
    /\ fx.trailing = <<255>>
    /\ fx.loader.ret = I32_MIN

(***************************************************************************)
(* Claims about load and dump                                              *)
(***************************************************************************)
\* Bodies as Marshal.dump writes them: nil, true, false, Fixnums, [1, 2],
\* :hello, [:a, :a], a = [a], [s = "a", s], #<A>, o = #<A a=o>, "a",
\* "a" with E=true, {}, {1 => 2}, and [h = {}, "", h].
Written ==
    { <<48>>, <<84>>, <<70>>, <<105, 0>>, <<105, 127>>, <<105, 128>>, <<105, 1, 123>>,
      <<105, 255, 132>>, <<105, 4, 255, 255, 255, 127>>, <<105, 252, 0, 0, 0, 128>>,
      <<91, 7, 105, 6, 105, 7>>, <<58, 10, 104, 101, 108, 108, 111>>, <<91, 7, 58, 6, 97, 59, 0>>,
      <<91, 6, 64, 0>>, <<91, 7, 34, 6, 97, 64, 6>>, <<111, 58, 6, 65, 0>>,
      <<111, 58, 6, 65, 6, 58, 6, 97, 64, 0>>, <<34, 6, 97>>, <<73, 34, 6, 97, 6, 58, 6, 69, 84>>,
      <<123, 0>>, <<123, 6, 105, 6, 105, 7>>, <<91, 8, 123, 0, 34, 0, 64, 6>> }

\* C1: for every byte stream of the supported subset for which load
\* succeeds, dump of the loaded arena writes exactly the bytes of the
\* stream.  Stated for the streams Marshal.dump itself writes, the
\* narrowest reading of the subset.
C1_RoundTrip ==
    (pc \in {"dumped", "reloaded"} /\ input \in {Header \o body : body \in Written}) =>
        (~failed(dumper) /\ dumper.out = input)

Children(v) ==
    IF v.kind = "Array" THEN {v.value[i] : i \in 1..Len(v.value)}
    ELSE IF v.kind = "Hash"
    THEN UNION {{v.value[i][1], v.value[i][2]} : i \in 1..Len(v.value)}
             \cup {v.default_value[i] : i \in 1..Len(v.default_value)}
    ELSE IF v.kind = "Object"
    THEN {v.name} \cup UNION {{v.instance_variables[i][1], v.instance_variables[i][2]} :
                                 i \in 1..Len(v.instance_variables)}
    ELSE IF v.kind \in {"String", "UserDefined"} /\ is_some(v.instance_variables)
    THEN UNION {{unwrap(v.instance_variables)[i][1], unwrap(v.instance_variables)[i][2]} :
                   i \in 1..Len(unwrap(v.instance_variables))}
    ELSE {}

\* Streams in which a composite holds an object link with its own index:
\* a = [a], o = #<A a=o>, s = "" with a=s, h = {nil => h}, [b = [b]],
\* [h = {nil => h}].
SelfLinked ==
    {Header \o body : body \in {<<91, 6, 64, 0>>, <<111, 58, 6, 65, 6, 58, 6, 97, 64, 0>>,
                                 <<73, 34, 0, 6, 58, 6, 97, 64, 0>>, <<123, 6, 48, 64, 0>>,
                                 <<91, 6, 91, 6, 64, 6>>, <<91, 6, 123, 6, 48, 64, 6>>}}

HasSelfChild(a) == \E h \in 1..Len(a.arena) : h \in Children(a.arena[h])

\* C6: loading a stream in which a composite holds an object link to
\* itself gives an arena in which the composite is its own child, dumping
\* that arena gives back the input, and loading the dump gives the same
\* arena again.
C6_CyclePreserved ==
    (input \in SelfLinked /\ pc # "start") =>
        /\ ~failed(loader)
        /\ HasSelfChild(loader.arena)
        /\ pc \in {"dumped", "reloaded"} => (~failed(dumper) /\ dumper.out = input)
        /\ pc = "reloaded" => (~failed(reloader) /\ reloader.arena = loader.arena)

\* The positions of the log at which a block was attached to handle h.
Attached(L, h) == {i \in 1..Len(L.log) : L.log[i].ev = "attach" /\ L.log[i].handle = h}

\* ... by a wrapper whose inner value was the String tag itself.
AttachedDirectly(L, h) == {i \in Attached(L, h) : L.log[i].inner = VALUE_KIND_STRING}

Strings(a) == {h \in 1..Len(a.arena) : a.arena[h].kind = "String"}

Last(S) == CHOOSE i \in S : \A j \in S : j <= i

\* C8 as stated: after a successful load, a String decoded inside an `I`
\* wrapper has the block decoded by that wrapper, and a String decoded
\* without a wrapper has no instance variables.
C8_IvarAttachment ==
    (pc = "loaded" /\ ~failed(loader)) =>
        \A h \in Strings(loader.arena) :
            IF AttachedDirectly(loader, h) # {}
            THEN \A i \in AttachedDirectly(loader, h) :
                     loader.arena.arena[h].instance_variables = Some(loader.log[i].block)
            ELSE loader.arena.arena[h].instance_variables = None

\* C8 amended: after a successful load, a String that was the inner value
\* of an `I` wrapper, as the String tag itself or through an object link or
\* another wrapper, has the block of the last such wrapper, also when the
\* block is empty; a String that was the inner value of no wrapper has no
\* instance variables.
C8_IvarAttachmentLast ==
    (pc = "loaded" /\ ~failed(loader)) =>
        \A h \in Strings(loader.arena) :
            IF Attached(loader, h) # {}
            THEN loader.arena.arena[h].instance_variables
                     = Some(loader.log[Last(Attached(loader, h))].block)
            ELSE loader.arena.arena[h].instance_variables = None

C8_Witness ==
    /\ pc = "loaded"
    /\ ~failed(loader)
    /\ input = Header \o <<91, 7, 73, 34, 0, 0, 73, 64, 6, 6, 58, 6, 97, 48>>
    /\ Cardinality(Attached(loader, 3)) = 2
    /\ Cardinality(AttachedDirectly(loader, 3)) = 1
    /\ loader.arena.arena[3].instance_variables = Some(<< <<4, 5>> >>)

(***************************************************************************)
(* Claims about the extraction context                                     *)
(***************************************************************************)
\* The handles reached from the handles in S through the elements of
\* Arrays, S included.
RECURSIVE ArrayReach(_, _)
ArrayReach(a, S) ==
    LET next == S \cup UNION {Children(a.arena[h]) : h \in {g \in S : g \in 1..Len(a.arena) /\ a.arena[g].kind = "Array"}}
    IN  IF next = S THEN S ELSE ArrayReach(a, next)

\* Everything reached from h is a live Array.
OnlyArrays(a, h) == \A g \in ArrayReach(a, {h}) : g \in 1..Len(a.arena) /\ a.arena[g].kind = "Array"

\* Some Array reached from h is reached from its own elements.
Cyclic(a, h) ==
    \E g \in ArrayReach(a, {h}) :
        g \in 1..Len(a.arena) /\ a.arena[g].kind = "Array" /\ g \in ArrayReach(a, Children(a.arena[g]))

\* C7: a call from_value(h) fails with Cycle{h} exactly when h is on the
\* visitation stack when the call is made; so the stack never holds a handle
\* twice, the extraction of the recursive type from Arrays that form a cycle
\* ends with Cycle, and every extraction ends.
C7_CycleDetection ==
    /\ [][ex.pc = "call" =>
            /\ ex'.err.name = "Cycle" <=> contains(ex.stack, ex.arg.handle)
            /\ ex'.err.name = "Cycle" => ex'.err = FromValueError_Cycle(ex.arg.handle)
            /\ Len(ex'.stack) <= Len(ex.arena.arena)]_vars
    /\ [](ex.pc = "done" /\ ex.top.ty = <<"Tree">> /\ OnlyArrays(ex.arena, ex.top.handle)
            => (ex.err.name = "Cycle" <=> Cyclic(ex.arena, ex.top.handle)))
    /\ <>(ex.pc = "done")

C7_Witness ==
    /\ ex.pc = "done"
    /\ ex.top = [handle |-> 2, ty |-> <<"Tree">>]
    /\ ex.arena.arena = <<NilValue, ArrayValue(<<3>>), ArrayValue(<<2>>)>>
    /\ ex.err = FromValueError_Cycle(2)
    /\ ex.stack = <<>>

(***************************************************************************)
(* Claims about arenas built through the API and dumped                    *)
(***************************************************************************)
\* C11: for every arena built through the public API whose dump succeeds,
\* loading the dump succeeds and dumping the loaded arena gives the bytes
\* of the first dump.
C11_ApiRoundTrip ==
    /\ pc = "loaded" => ~failed(loader)
    /\ pc \in {"dumped", "reloaded"} => (~failed(dumper) /\ dumper.out = input)

\* C12: when dump returns an error the writer has received no bytes.
C12_NoPartialDump ==
    (pc = "failed" /\ failed(dumper)) => dumper.out = <<>>

(***************************************************************************)
(* Claims about the loader                                                 *)
(***************************************************************************)
\* The fourteen tags of the table of value kinds.
SupportedTags ==
    {VALUE_KIND_NIL, VALUE_KIND_TRUE, VALUE_KIND_FALSE, VALUE_KIND_FIXNUM, VALUE_KIND_SYMBOL,
     VALUE_KIND_SYMBOL_LINK, VALUE_KIND_OBJECT_LINK, VALUE_KIND_INSTANCE_VARIABLES, VALUE_KIND_ARRAY,
     VALUE_KIND_HASH, VALUE_KIND_HASH_DEFAULT, VALUE_KIND_OBJECT, VALUE_KIND_STRING,
     VALUE_KIND_USER_DEFINED}

\* C13: the loader fails with InvalidValueKind{kind} at the first value
\* position if and only if the tag there is none of the fourteen tags, the
\* tag is then the last byte read, and at no position is one of the
\* fourteen tags reported as invalid.
C13_InvalidValueKind ==
    (pc = "loaded" /\ Len(input) >= 3 /\ loader.err.name # "InvalidVersion") =>
        /\ loader.err = Error_InvalidValueKind(input[3]) <=> input[3] \notin SupportedTags
        /\ input[3] \notin SupportedTags => loader.pos = 3
        /\ loader.err.name = "InvalidValueKind" => loader.err.kind \notin SupportedTags

(***************************************************************************)
(* Claims about the extraction context                                     *)
(***************************************************************************)
\* The handles of the calls of from_value that have not returned yet,
\* outermost first.
InProgress == [i \in 1..Len(ex.frames) |-> ex.frames[i].handle]

\* C14: whatever a call from_value(h) returns, Ok or an error of its own or
\* of a nested call, the visitation stack after the call is the stack
\* before it, and the assertion of end_handle never fails: a call that
\* returns at once leaves the stack as it was, a call that returns after
\* nested calls takes exactly its own handle off, the stack always holds
\* exactly the handles of the calls in progress, and it is empty at the end.
C14_StackRestored ==
    /\ [][/\ (ex.pc = "call" /\ ex'.pc \in {"return", "unwind"}) => ex'.stack = ex.stack
          /\ (ex.pc \in {"return", "unwind"} /\ Len(ex'.frames) < Len(ex.frames)) =>
                 ex.stack = Append(ex'.stack, ex.frames[Len(ex.frames)].handle)]_vars
    /\ [](ex.pc # "idle" => (~ex.panicked /\ ex.stack = InProgress))
    /\ [](ex.pc = "done" => ex.stack = <<>>)

\* An element of the root Array failed, and the stack is empty again.
C14_Witness ==
    /\ ex.pc = "done"
    /\ ex.top = [handle |-> 2, ty |-> <<"Vec", "i32">>]
    /\ ex.arena.arena = <<NilValue, ArrayValue(<<3, 3>>), ArrayValue(<<>>)>>
    /\ ex.err = FromValueError_UnexpectedValueKind("Array")
    /\ ex.stack = <<>>

\* C15: an extraction fails with Cycle only when a cycle of Arrays is
\* reached from the handle it started at; a handle that several sibling
\* positions share is visited once per position without error.
C15_NoCycleOnSharing ==
    (ex.pc # "idle" /\ ex.err.name = "Cycle") => Cyclic(ex.arena, ex.top.handle)

\* [a, a] with a = [] is extracted as a tree without error.
C15_Witness ==
    /\ ex.pc = "done"
    /\ ex.top = [handle |-> 2, ty |-> <<"Tree">>]
    /\ ex.arena.arena = <<NilValue, ArrayValue(<<3, 3>>), ArrayValue(<<>>)>>
    /\ ex.err = Ok

(***************************************************************************)
(* Claims about example streams                                            *)
(***************************************************************************)
\* The root value of the arena a load returned.
RootValue(L) == L.arena.arena[root(L.arena)]

\* After the load of the header and `body`: the load succeeded with the
\* root Fixnum(value), and a dump of the loaded arena wrote the input again.
LoadsAsFixnum(body, value) ==
    input = Header \o body =>
        /\ pc \in {"loaded", "dumped", "reloaded"} =>
               (~failed(loader) /\ RootValue(loader) = FixnumValue(value))
        /\ pc \in {"dumped", "reloaded"} => (~failed(dumper) /\ dumper.out = input)

\* C16: 04 08 followed by 69 00, 69 7F, 69 FE 85 and 69 04 FF FF FF 7F
\* loads as Fixnum 0, 122, -123 and 2147483647, and the dump of each loaded
\* arena is its input.
C16_FixnumExamples ==
    /\ LoadsAsFixnum(<<105, 0>>, 0)
    /\ LoadsAsFixnum(<<105, 127>>, 122)
    /\ LoadsAsFixnum(<<105, 254, 133>>, -123)
    /\ LoadsAsFixnum(<<105, 4, 255, 255, 255, 127>>, I32_MAX)

\* C16, amended: 04 08 followed by 69 00, 69 7F, 69 80 and 69 04 FF FF FF 7F
\* loads as Fixnum 0, 122, -123 and 2147483647, and the dump of each loaded
\* arena is its input; 69 FE 85 announces two bytes, holds one, and fails
\* at the end of the input.
C16_FixnumExamplesAmended ==
    /\ LoadsAsFixnum(<<105, 0>>, 0)
    /\ LoadsAsFixnum(<<105, 127>>, 122)
    /\ LoadsAsFixnum(<<105, 128>>, -123)
    /\ LoadsAsFixnum(<<105, 4, 255, 255, 255, 127>>, I32_MAX)
    /\ (pc = "loaded" /\ input = Header \o <<105, 254, 133>>) => loader.err = Error_Io

\* -123 has been loaded from 69 80 and written again.
C16_Witness ==
    /\ pc = "dumped"
    /\ input = Header \o <<105, 128>>
    /\ RootValue(loader) = FixnumValue(-123)
    /\ dumper.out = input

(***************************************************************************)
(* Claims about the interning map                                          *)
(***************************************************************************)
\* The byte strings carried by the Symbol values of the arena.
SymbolBytes(a) == {a.arena[h].value : h \in {i \in 1..Len(a.arena) : a.arena[i].kind = "Symbol"}}

\* The interning map has the byte strings of the Symbols as its keys, one
\* entry per key, and every entry leads to a Symbol that carries its key.
SymbolsExact(a) ==
    /\ {e.key : e \in a.symbols} = SymbolBytes(a)
    /\ \A e1, e2 \in a.symbols : e1.key = e2.key => e1 = e2
    /\ \A e \in a.symbols : get(a, e.handle) = Some(SymbolValue(e.key))

\* C17: in every arena built by calls of create_symbol, create_new_symbol
\* and the other create_* functions, and in every arena a load has built by
\* overwriting its placeholders, the interning map has exactly one entry
\* for each byte string a Symbol carries and none for any other, and the
\* handle of each entry resolves to a Symbol with the bytes of the key.
C17_InterningExact ==
    /\ SymbolsExact(arena)
    /\ pc \in {"loaded", "dumped", "reloaded"} => SymbolsExact(loader.arena)
    /\ pc = "reloaded" => SymbolsExact(reloader.arena)

\* Two Symbols with the bytes of one key were made by create_new_symbol,
\* written, and read back through the placeholders of the loader.
C17_Witness ==
    /\ pc = "loaded"
    /\ ~failed(loader)
    /\ Cardinality({h \in 1..Len(arena.arena) : arena.arena[h] = SymbolValue(<<97>>)}) = 2
    /\ arena.symbols = {[key |-> <<97>>, handle |-> 2]}
    /\ \E i \in 1..Len(loader.log) : loader.log[i].ev = "overwrite"
    /\ loader.arena.symbols # {}

(***************************************************************************)
(* Claims about object links                                               *)
(***************************************************************************)
CompositeKinds == {"Array", "Hash", "Object", "String", "UserDefined"}

\* After a successful load: every value of the kinds in `kinds` is in the
\* object link table; the table is in the order the values were first met
\* (handles are handed out in that order); and when a value is registered
\* nothing has been done yet to any value met after it.
RegisteredFirst(L, kinds) ==
    /\ \A h \in 1..Len(L.arena.arena) :
           L.arena.arena[h].kind \in kinds => \E i \in 1..Len(L.object_links) : L.object_links[i] = h
    /\ \A i, j \in 1..Len(L.object_links) : i < j => L.object_links[i] < L.object_links[j]
    /\ \A i, j \in 1..Len(L.log) :
           (L.log[i].ev = "register" /\ L.log[j].handle > L.log[i].handle) => i < j

\* C18: the loader registers every Array, Hash, Object, String and
\* UserDefined in the object link table before any of its children is
\* read, in the order they first occur in the stream.
C18_RegisteredBeforeChildren ==
    (pc = "loaded" /\ ~failed(loader)) => RegisteredFirst(loader, CompositeKinds)

\* The positions of the history of a dump at which the body of handle h
\* was started, and those at which a link to it was written.
Bodies_of(D, h) == {i \in 1..Len(D.log) : D.log[i].ev = "body" /\ D.log[i].handle = h}

Links_of(D, h) == {i \in 1..Len(D.log) : D.log[i].ev = "link" /\ D.log[i].handle = h}

\* The tag bytes the body of a value starts with.
BodyTag(v) ==
    IF v.kind = "Array" THEN {VALUE_KIND_ARRAY}
    ELSE IF v.kind = "Hash" THEN {IF is_some(v.default_value) THEN VALUE_KIND_HASH_DEFAULT ELSE VALUE_KIND_HASH}
    ELSE IF v.kind = "Object" THEN {VALUE_KIND_OBJECT}
    ELSE IF v.kind = "String"
    THEN {IF is_some(v.instance_variables) THEN VALUE_KIND_INSTANCE_VARIABLES ELSE VALUE_KIND_STRING}
    ELSE IF v.kind = "UserDefined"
    THEN {IF is_some(v.instance_variables) THEN VALUE_KIND_INSTANCE_VARIABLES ELSE VALUE_KIND_USER_DEFINED}
    ELSE {}

\* '@' and the Fixnum bytes of index, as a standalone sequence.
LinkBytes(index) ==
    <<VALUE_KIND_OBJECT_LINK>> \o write_fixnum(Dumper_new(<<>>, ValueArena_new), index).out

\* `bytes` is what `out` holds from position at + 1 on.
WrittenAt(out, at, bytes) ==
    /\ Len(out) >= at + Len(bytes)
    /\ SubSeq(out, at + 1, at + Len(bytes)) = bytes

Composite(a, h) == is_some(get(a, h)) /\ unwrap(get(a, h)).kind \in CompositeKinds

\* C19: during one dump the body of a composite handle is written once,
\* where the traversal first meets the handle, and every later occurrence
\* of the handle is written as '@' and the Fixnum index at which the
\* handle entered the object link table; when the dump succeeds every
\* composite reached from the root has its body in the output.
C19_BodyOnceThenLink ==
    pc \in {"start", "failed", "dumped"} =>
        /\ \A i \in 1..Len(dumper.log) : dumper.log[i].ev \in {"body", "link"} =>
               Composite(dumper.arena, dumper.log[i].handle)
        /\ \A h \in 1..Len(dumper.arena.arena) :
               /\ Cardinality(Bodies_of(dumper, h)) <= 1
               /\ \A i \in Bodies_of(dumper, h) :
                      /\ \A j \in Links_of(dumper, h) : i < j
                      /\ dumper.object_links[Cardinality({k \in 1..i : dumper.log[k].ev = "body"})] = h
                      /\ Len(dumper.out) > dumper.log[i].at
                      /\ dumper.out[dumper.log[i].at + 1] \in BodyTag(dumper.arena.arena[h])
               /\ \A j \in Links_of(dumper, h) :
                      /\ Bodies_of(dumper, h) # {}
                      /\ WrittenAt(dumper.out, dumper.log[j].at,
                                   LinkBytes(unwrap(get_index_of(dumper.object_links, h))))
        /\ ~failed(dumper) =>
               /\ Composite(dumper.arena, root(dumper.arena)) => Bodies_of(dumper, root(dumper.arena)) # {}
               /\ \A h \in 1..Len(dumper.arena.arena) : Bodies_of(dumper, h) # {} =>
                      \A c \in Children(dumper.arena.arena[h]) :
                          Composite(dumper.arena, c) => Bodies_of(dumper, c) # {}

\* [o, "a", o] was written: the body of o is the second body, and its
\* second occurrence is the link '@' 06 that ends the output.
C19_Witness ==
    /\ pc = "start"
    /\ ~failed(dumper)
    /\ arena.arena[root(arena)] = ArrayValue(<<4, 3, 4>>)
    /\ arena.arena[4].kind = "Object"
    /\ Cardinality(Bodies_of(dumper, 4)) = 1
    /\ Cardinality(Links_of(dumper, 4)) = 1
    /\ dumper.object_links = <<5, 4, 3>>
    /\ SubSeq(dumper.out, Len(dumper.out) - 1, Len(dumper.out)) = <<VALUE_KIND_OBJECT_LINK, 6>>

(***************************************************************************)
(* Claims about symbol links                                               *)
(***************************************************************************)
\* The positions of the history of a dump at which a Symbol carrying
\* `bytes` was written as a ':' definition.
Definitions_of(D, bytes) ==
    {i \in 1..Len(D.log) : D.log[i].ev = "symbol" /\ D.arena.arena[D.log[i].handle].value = bytes}

\* C20: during one dump every byte string of a Symbol is written as a ':'
\* definition at most once, and every later Symbol of the same bytes is
\* written as ';' and the index of that definition, whether the Symbols
\* were made by create_symbol or by create_new_symbol.
C20_SymbolDefinedOnce ==
    pc \in {"start", "failed", "dumped"} =>
        /\ \A bytes \in SymbolBytes(dumper.arena) : Cardinality(Definitions_of(dumper, bytes)) <= 1
        /\ \A j \in 1..Len(dumper.log) : dumper.log[j].ev = "symbol_link" =>
               \E i \in Definitions_of(dumper, dumper.arena.arena[dumper.log[j].handle].value) :
                   /\ i < j
                   /\ WrittenAt(dumper.out, dumper.log[j].at,
                                <<VALUE_KIND_SYMBOL_LINK>> \o
                                    write_fixnum(Dumper_new(<<>>, ValueArena_new),
                                                 Cardinality({k \in 1..i : dumper.log[k].ev = "symbol"}) - 1).out)

\* The positions of the history of a load at which a ':' definition was
\* read, up to position n.
Defined(L, n) == {i \in 1..n : L.log[i].ev = "define"}

\* C21: the symbol link table of the loader has one entry per ':'
\* definition read, in the order of the definitions, each definition has a
\* handle of its own even when two definitions carry the same bytes, and a
\* ';' link with index j resolves to the handle of the j-th definition.
C21_SymbolLinksPerDefinition ==
    pc = "loaded" =>
        /\ Len(loader.symbol_links) = Cardinality(Defined(loader, Len(loader.log)))
        /\ \A i \in Defined(loader, Len(loader.log)) :
               /\ loader.log[i].index = Cardinality(Defined(loader, i)) - 1
               /\ loader.symbol_links[loader.log[i].index + 1] = loader.log[i].handle
        /\ \A i, j \in 1..Len(loader.symbol_links) :
               i # j => loader.symbol_links[i] # loader.symbol_links[j]
        /\ \A i \in 1..Len(loader.log) : loader.log[i].ev = "symbol_link" =>
               /\ loader.log[i].index < Cardinality(Defined(loader, i))
               /\ loader.log[i].handle = loader.symbol_links[loader.log[i].index + 1]

(***************************************************************************)
(* Claims about the Fixnum codec                                           *)
(***************************************************************************)
\* The input is a Fixnum whose leading byte, as an i8, is in `range`.
FixnumLeading(range) ==
    /\ pc = "loaded"
    /\ Len(input) >= 4
    /\ SubSeq(input, 1, 3) = Header \o <<VALUE_KIND_FIXNUM>>
    /\ as_i8(input[4]) \in range

Abs(c) == IF c < 0 THEN -c ELSE c

\* C22: read_fixnum_value returns c - 5 for a leading byte c in 6..127 and
\* c + 5 for c in -128..-6, reads |c| payload bytes for c in 1..4 and
\* -4..-1, and rejects c = 5 and c = -5 with InvalidFixnumSize.
C22_FixnumLeadingByte ==
    /\ FixnumLeading(6..127) =>
           (~failed(loader) /\ loader.pos = 4 /\ RootValue(loader) = FixnumValue(as_i8(input[4]) - 5))
    /\ FixnumLeading(-128..-6) =>
           (~failed(loader) /\ loader.pos = 4 /\ RootValue(loader) = FixnumValue(as_i8(input[4]) + 5))
    /\ FixnumLeading((1..4) \cup (-4..-1)) =>
           IF Len(input) >= 4 + Abs(as_i8(input[4]))
           THEN ~failed(loader) /\ loader.pos = 4 + Abs(as_i8(input[4]))
           ELSE loader.err = Error_Io
    /\ FixnumLeading({5, -5}) => loader.err = Error_InvalidFixnumSize(5)

\* v shifted right by 8n bits, the sign kept.
RECURSIVE Shifted(_, _)
Shifted(v, n) == IF n = 0 THEN v ELSE Shifted(v \div 256, n - 1)

\* v shifted right by 8n bits is 0 or -1.
Fits(v, n) == Shifted(v, n) \in {0, -1}

\* The smallest count of payload bytes in 1..4 that v fits in.
Smallest(v) == CHOOSE n \in 1..4 : Fits(v, n) /\ \A m \in 1..(n - 1) : ~Fits(v, m)

\* The bytes of the canonical form of v.
Canonical(v) ==
    IF v = 0 THEN <<0>>
    ELSE IF v \in 1..122 THEN <<v + 5>>
    ELSE IF v \in -123..-1 THEN <<(v - 5) % 256>>
    ELSE <<IF v >= 0 THEN Smallest(v) ELSE 256 - Smallest(v)>>
             \o [k \in 1..Smallest(v) |-> Shifted(v, k - 1) % 256]

\* C23: write_fixnum writes the single byte 0 for 0, v + 5 for 1..122,
\* (v - 5) & 0xFF for -123..-1, and otherwise the sign byte n or -n and
\* exactly n little-endian low bytes, n the smallest count in 1..4 after
\* which v shifted right by 8n bits is 0 or -1.
C23_WriteFixnumCanonical ==
    fx.pc \in {"encoded", "decoded"} => fx.out = Canonical(fx.value)

\* -257 is written with two payload bytes.
C23_Witness ==
    /\ fx.pc = "encoded"
    /\ fx.value = -257
    /\ Smallest(fx.value) = 2
    /\ fx.out = <<254, 255, 254>>

(***************************************************************************)
(* Claims about link resolution                                            *)
(***************************************************************************)
\* The entries the object link table held when step n of the history of a
\* load was taken.
Registered(L, n) == {i \in 1..n : L.log[i].ev = "register"}

\* The index a link at the top of the stream carries, decoded on its own.
TopIndex == read_fixnum_value(Loader_new(SubSeq(input, 4, Len(input))))

\* C24: a SymbolLink or ObjectLink whose index is negative fails with
\* FixnumInvalidUSize; one whose index is at or beyond the length of its
\* table fails with MissingSymbolLink or MissingObjectLink of that index;
\* any other returns the handle registered at that position, a value that
\* exists already, and creates no value.
C24_LinkResolution ==
    pc = "loaded" =>
        /\ \A i \in 1..Len(loader.log) : loader.log[i].ev \in {"symbol_link", "object_link"} =>
               /\ loader.log[i].index >= 0
               /\ loader.log[i].index <
                      Cardinality(IF loader.log[i].ev = "symbol_link"
                                  THEN Defined(loader, i) ELSE Registered(loader, i))
               /\ loader.log[i].handle =
                      (IF loader.log[i].ev = "symbol_link"
                       THEN loader.symbol_links ELSE loader.object_links)[loader.log[i].index + 1]
               /\ loader.log[i].handle \in 1..loader.log[i].values
               /\ loader.log[i].left = loader.log[i].values
        /\ loader.err.name = "MissingSymbolLink" => loader.err.index >= Len(loader.symbol_links)
        /\ loader.err.name = "MissingObjectLink" => loader.err.index >= Len(loader.object_links)
        /\ (Len(input) >= 4 /\ SubSeq(input, 1, 2) = Header /\ ~failed(TopIndex)
              /\ input[3] \in {VALUE_KIND_SYMBOL_LINK, VALUE_KIND_OBJECT_LINK}) =>
               loader.err = IF TopIndex.ret < 0 THEN Error_FixnumInvalidUSize
                            ELSE IF input[3] = VALUE_KIND_SYMBOL_LINK
                            THEN Error_MissingSymbolLink(TopIndex.ret)
                            ELSE Error_MissingObjectLink(TopIndex.ret)
        /\ input = Header \o <<91, 6, 64, 250>> =>
               (loader.err = Error_FixnumInvalidUSize /\ loader.object_links = <<2>>)

\* [b = [b]]: the link with index 1 inside b has returned b, the second
\* entry of the table.
C24_Witness ==
    /\ pc = "loaded"
    /\ ~failed(loader)
    /\ input = Header \o <<91, 6, 91, 6, 64, 6>>
    /\ loader.object_links = <<2, 3>>
    /\ \E i \in 1..Len(loader.log) :
           /\ loader.log[i].ev = "object_link"
           /\ loader.log[i].index = 1
           /\ loader.log[i].handle = 3
    /\ Len(loader.arena.arena) = 3

(***************************************************************************)
(* Claims about instance variables                                         *)
(***************************************************************************)
\* The input is the header and an 'I' wrapper.
Wrapper == Len(input) >= 3 /\ SubSeq(input, 1, 2) = Header /\ input[3] = VALUE_KIND_INSTANCE_VARIABLES

\* The loader after the inner value of the wrapper, and after the block
\* that follows it.
InnerRead == read_value(read_byte(read_header(Loader_new(input))))

BlockRead == read_instance_variables(InnerRead)

\* C25: for an 'I' wrapper whose inner value and block are read, the load
\* succeeds with the block attached when the inner value is a String or a
\* UserDefined, and fails with NotAnObject when it is of any other kind; a
\* wrapper around a UserDefined is loaded.
C25_WrapperInnerKind ==
    /\ (pc = "loaded" /\ Wrapper /\ ~failed(InnerRead) /\ ~failed(BlockRead)) =>
           IF BlockRead.arena.arena[InnerRead.ret].kind \in {"String", "UserDefined"}
           THEN /\ ~failed(loader)
                /\ root(loader.arena) = InnerRead.ret
                /\ RootValue(loader).instance_variables = Some(BlockRead.ret)
           ELSE loader.err = Error_NotAnObject
    /\ (pc = "loaded" /\ input = Header \o <<73, 117, 58, 6, 65, 0, 0>>) => ~failed(loader)

\* The instance variables of a value: the block of an Object, the block of
\* a String or UserDefined that has one, and no pairs otherwise.
Block(v) ==
    IF v.kind = "Object" THEN v.instance_variables
    ELSE IF v.kind \in {"String", "UserDefined"} /\ is_some(v.instance_variables)
    THEN unwrap(v.instance_variables)
    ELSE <<>>

\* Two pairs of the block of value h are named by Symbols of the same bytes.
RepeatedName(a, h) ==
    \E i, j \in 1..Len(Block(a.arena[h])) :
        /\ i < j
        /\ a.arena[Block(a.arena[h])[i][1]].value = a.arena[Block(a.arena[h])[j][1]].value

\* C26: a block of instance variables that names the same symbol twice, on
\* an Object or on an 'I' wrapper, is never loaded successfully: the
\* loader reports DuplicateInstanceVariable for it.
C26_DuplicateInstanceVariable ==
    pc = "loaded" =>
        /\ ~failed(loader) => \A h \in 1..Len(loader.arena.arena) : ~RepeatedName(loader.arena, h)
        /\ input \in {Header \o <<111, 58, 6, 65, 7, 58, 6, 97, 48, 59, 6, 48>>,
                      Header \o <<73, 34, 0, 7, 58, 6, 97, 48, 59, 0, 48>>} =>
               loader.err = Error_DuplicateInstanceVariable(<<97>>)

(***************************************************************************)
(* Claims about the extent of a load                                       *)
(***************************************************************************)
\* Bytes that may follow the top-level value: none, bytes that are no tag,
\* a whole value, and a link.
TrailingBytes == TrailingSamples \cup {<<VALUE_KIND_NIL>>, <<VALUE_KIND_OBJECT_LINK, 0>>}

\* load of the bytes L has read followed by `trailing` ends as L did: the
\* same arena, the same link tables, and the reader at the same position.
SameLoad(L, trailing) ==
    /\ ~failed(load(SubSeq(L.bytes, 1, L.pos) \o trailing))
    /\ load(SubSeq(L.bytes, 1, L.pos) \o trailing).arena = L.arena
    /\ load(SubSeq(L.bytes, 1, L.pos) \o trailing).object_links = L.object_links
    /\ load(SubSeq(L.bytes, 1, L.pos) \o trailing).symbol_links = L.symbol_links
    /\ load(SubSeq(L.bytes, 1, L.pos) \o trailing).pos = L.pos

\* C27: a successful load reads the two header bytes and the bytes of one
\* value, makes the handle of that value the root, and reads nothing after
\* it: whatever bytes follow the value, the result is the same and the
\* reader is left at the first of them.
C27_TrailingBytesUnread ==
    (pc = "loaded" /\ ~failed(loader)) =>
        /\ loader.pos >= 3
        /\ loader.pos <= Len(input)
        /\ root(loader.arena) = loader.ret
        /\ \A trailing \in TrailingBytes : SameLoad(loader, trailing)

\* nil followed by another nil: the load stopped after the first.
C27_Witness ==
    /\ pc = "loaded"
    /\ ~failed(loader)
    /\ input = Header \o <<VALUE_KIND_NIL, VALUE_KIND_NIL>>
    /\ loader.pos = 3
    /\ RootValue(loader) = NilValue

(***************************************************************************)
(* Claims about placeholders                                               *)
(***************************************************************************)
\* The positions of the history of a load at which the slot of handle h
\* was overwritten.
Overwrites(L, h) == {i \in 1..Len(L.log) : L.log[i].ev = "overwrite" /\ L.log[i].handle = h}

\* C28: during a load a slot is overwritten in place only when it holds a
\* Nil placeholder that this load created and registered in the object
\* link table before; no placeholder is overwritten twice, the Arrays and
\* Objects of a successful load were overwritten once, attaching a block
\* leaves the kind of the String, and after a successful load no handle of
\* the object link table resolves to Nil.
C28_PlaceholderOverwrite ==
    pc = "loaded" =>
        /\ \A i \in 1..Len(loader.log) : loader.log[i].ev = "overwrite" =>
               /\ loader.log[i].was = "Nil"
               /\ loader.log[i].handle # root(ValueArena_new)
               /\ \E j \in 1..(i - 1) :
                      loader.log[j].ev = "register" /\ loader.log[j].handle = loader.log[i].handle
        /\ \A h \in 1..Len(loader.arena.arena) :
               /\ Cardinality(Overwrites(loader, h)) <= 1
               /\ (~failed(loader) /\ loader.arena.arena[h].kind \in {"Array", "Object"}) =>
                      Cardinality(Overwrites(loader, h)) = 1
               /\ Attached(loader, h) # {} => loader.arena.arena[h].kind = "String"
        /\ ~failed(loader) =>
               \A i \in 1..Len(loader.object_links) :
                   loader.arena.arena[loader.object_links[i]].kind # "Nil"

\* a = [a]: the placeholder of a was registered, linked to from inside a,
\* and overwritten with the Array at the end.
C28_Witness ==
    /\ pc = "loaded"
    /\ ~failed(loader)
    /\ input = Header \o <<91, 6, 64, 0>>
    /\ loader.object_links = <<2>>
    /\ Overwrites(loader, 2) = {3}
    /\ loader.log[3].was = "Nil"
    /\ loader.arena.arena[2] = ArrayValue(<<2>>)

(***************************************************************************)
(* Claims about the traversal of the dumper                                *)
(***************************************************************************)
\* The live handles a step away from the handles in S.
Step(a, S) == UNION {Children(a.arena[h]) : h \in {g \in S : g \in 1..Len(a.arena)}}

\* The handles reached from the handles in S, S included.
RECURSIVE Reach(_, _)
Reach(a, S) == IF Step(a, S) \subseteq S THEN S ELSE Reach(a, S \cup Step(a, S))

\* The entries of a link table that are reached from the root of a.
Reachable(a, links) == SelectSeq(links, LAMBDA h : h \in Reach(a, {root(a)}))

\* C29: after the dump of an arena that load produced, the object link
\* table of the dumper holds the handles the object link table of the
\* loader held, at the same indices (the handles reached from the root),
\* for streams of Arrays, Hashes, Objects and Strings.
C29_SameNumbering ==
    (pc = "dumped" /\ ~failed(dumper)) =>
        dumper.object_links = Reachable(loader.arena, loader.object_links)

\* The child slots of a value: the handles it holds, counted with their
\* repetitions.
Slots(v) ==
    IF v.kind = "Array" THEN Len(v.value)
    ELSE IF v.kind = "Hash" THEN 2 * Len(v.value) + Len(v.default_value)
    ELSE IF v.kind = "Object" THEN 1 + 2 * Len(v.instance_variables)
    ELSE IF v.kind = "String" THEN 2 * Len(Block(v))
    ELSE IF v.kind = "UserDefined" THEN 1 + 2 * Len(Block(v))
    ELSE 0

\* The child slots of the values among the first n that are reached from
\* the root.
RECURSIVE ReachedSlots(_, _)
ReachedSlots(a, n) ==
    IF n = 0 THEN 0
    ELSE (IF n \in Reach(a, {root(a)}) THEN Slots(a.arena[n]) ELSE 0) + ReachedSlots(a, n - 1)

\* The calls of write_value in the history of a dump.
Visits(D) == {i \in 1..Len(D.log) : D.log[i].ev = "value"}

\* C30: every dump ends, whether or not the arena holds cycles, after at
\* most one call of write_value for the root and one for each child slot
\* of the composites reached from the root.
C30_DumpBounded ==
    pc \in {"start", "failed", "dumped"} =>
        Cardinality(Visits(dumper)) <= 1 + ReachedSlots(dumper.arena, Len(dumper.arena.arena))

\* a = [a] came out of a load and was dumped with two calls: one for the
\* root and one for its only slot, written as a link.
C30_Witness ==
    /\ pc = "dumped"
    /\ ~failed(dumper)
    /\ loader.arena.arena = <<NilValue, ArrayValue(<<2>>)>>
    /\ root(loader.arena) = 2
    /\ Cardinality(Visits(dumper)) = 2
    /\ dumper.out = Header \o <<VALUE_KIND_ARRAY, 6, VALUE_KIND_OBJECT_LINK, 0>>

====
